---- MODULE Spec2Model ----
(***************************************************************************)
(* Host-side entropy aggregator of entropic-chaos: CIPHERTANWorker in      *)
(* src/entropicchaos.py.  The model covers the entropy pool (a deque       *)
(* guarded by entropy_lock), the producers that push 16-byte chunks into   *)
(* it, the start/stop lifecycle, the window-processing threads running     *)
(* entropy_processing_loop, and process_entropy_window with its audit,     *)
(* key forge, PQC wrap fallback chain and key-log persistence.             *)
(*                                                                         *)
(* A chunk is identified by the order in which it was created; the 32      *)
(* bytes of os.urandom appended to a drained pool are the item HOST.       *)
(* Qt signal emission is queued across threads and does not raise.         *)
(***************************************************************************)
EXTENDS Integers, Sequences, FiniteSets, TLC

\* ---------------------------------------------------------------- bounds
\* deque(maxlen=4096) of src/entropicchaos.py:674, scaled down
PoolMaxLen == 2
\* chunks created by the producers in one behaviour
MaxChunks == 3
\* chunks created in one behaviour of WindowSpec and LiveSpec
WindowChunks == 2
\* window-processing threads created in one behaviour (calls of start_system
\* that pass the is_running guard)
MaxThreads == 2
\* longest classical key and shared secret handed to the PQCManager, in bytes
MaxKeyLen == 2
\* serial.Serial objects created in one behaviour
MaxConnects == 2
\* writes to the serial port begun in one behaviour
MaxSends == 8
\* chunks created in one behaviour of LinkSpec
LinkChunks == 1
\* characters in a response payload
MaxPayload == 4
\* error events of handle_serial_response
MaxErrors == 1
\* chunks the dispatched lines add
DispatchChunks == 2
\* command lines the device reads
MaxCommands == 2
\* timer callbacks the device runs
MaxTicks == 2
\* command lines the device reads in one behaviour of LoopSpec
MaxLoopCommands == 260
\* gc.collect() calls that idle iterations of main_loop add
MaxGcRuns == 2
\* comma-separated fields in an RGB payload
MaxParts == 4
\* width of a key byte, in bits
ByteBits == 2

\* ------------------------------------------------------------- constants
ChunkBytes == 16
\* self.trng_rate_hz = 10, and the rate of a TRNG:START without one
DefaultRate == 10
\* rate = max(1, min(50, rate))
MinRate == 1
MaxRate == 50
\* self.command_count % 50 == 0
MaintenanceEvery == 50
\* len(self.usb_jitter_buffer), len(self.wifi_entropy_buffer)
RingSize == 256
HostRngBytes == 32
MinSampleBytes == 32
HOST == 0
\* the domain separator b"CIPHER_CHAN_V2" as an item of the hashed sequence
CIPHER_CHAN_V2 == -1

Producers == {"key", "mouse", "trng"}
Threads == 1..MaxThreads
Chunks == 1..MaxChunks

VARIABLES
    PQC_AVAILABLE,      \* module flag set at import time
    is_running,         \* self.is_running
    stop_event,         \* self.stop_event (threading.Event flag)
    entropy_chunks,     \* self.entropy_chunks
    entropy_lock,       \* self.entropy_lock is held
    prod,               \* producer thread -> position
    nchunks,            \* chunks appended so far
    nthreads,           \* window-processing threads created so far
    pc,                 \* window-processing thread -> position
    w,                  \* window-processing thread -> record of its window
    keys_generated,     \* self.keys_generated
    key_log,            \* lines appended to the file at self.key_log_path
    evicted,            \* chunks dropped by the deque's maxlen
    returned,           \* chunk -> number of drains that returned it
    audit_arg,          \* the buffer handed to comprehensive_audit
    audit_called,       \* comprehensive_audit has been called on it
    audit_ret,          \* what the call returned
    test_history,       \* len(self.test_history) of the auditor
    pqc_in,             \* what the PQCManager calls are given
    wrapped_data,       \* the dict returned by wrap_key_with_*
    wrap_raised,        \* wrap_key_with_* raised
    key_file,           \* the JSON object in <name>_wrapped.key
    secret_file,        \* the file <name>_secret.key
    save_ret,           \* how save_pqc_wrapped_key ended
    serial_port,        \* self.serial_port is set
    serial_connection,  \* self.serial_connection: 0 is None, k the k-th
                        \* serial.Serial object created
    nconnects,          \* serial.Serial objects created so far
    closed,             \* serial.Serial objects on which close() was called
    gui,                \* the GUI thread's position inside connect_serial
    writing,            \* thread -> the write it is inside of
    send_ret,           \* thread -> what its last send_serial_command did
    failed,             \* serial.Serial objects on which a write failed
    nsends,             \* writes begun so far
    reader,             \* Serial object -> the reader thread its connect made
    rx_line,            \* the line handed to handle_serial_response
    include_esp_trng,   \* self.include_esp_trng
    dispatched,         \* handle_serial_response has returned
    dispatch_errors,    \* error events emitted by handle_serial_response
    dev_mode,           \* device: main loop, emergency loop, reset, exited
    dev_pc,             \* device: position of the main thread in a handler
    trng_timer,         \* device: self.trng_timer is armed
    dev_out,            \* device: lines printed, in order
    error_count,        \* device: self.error_count
    rgb_updates,        \* device: self.stats["rgb_updates"]
    current_color,      \* device: self.hardware.current_color
    dev_brightness,     \* device: self.hardware.brightness, in percent
    dev_cmd,            \* device: the command line being handled, or the last
    dev_script,         \* device: the TRNG commands handled since boot
    ncommands,          \* device: command lines read so far
    nticks,             \* device: timer callbacks run so far
    trng_rate_hz,       \* device: self.trng_rate_hz
    trng_period,        \* device: period of the last trng_timer.init, ms
    armed,              \* device: Timer objects armed with _trng_tick
    command_count,      \* device: self.command_count
    gc_runs,            \* device: gc.collect() calls of main_loop since boot
    usb_j_idx,          \* device: self.usb_j_idx
    wifi_idx,           \* device: self.wifi_idx
    torn                \* device: a callback ran between lines 303 and 304

vars == <<PQC_AVAILABLE, is_running, stop_event,
          entropy_chunks, entropy_lock, prod, nchunks, nthreads, pc, w,
          keys_generated, key_log, evicted, returned,
          audit_arg, audit_called, audit_ret, test_history,
          pqc_in, wrapped_data, wrap_raised, key_file, secret_file,
          save_ret,
          serial_port, serial_connection, nconnects, closed, gui, writing,
          send_ret, failed, nsends, reader,
          rx_line, include_esp_trng, dispatched, dispatch_errors,
          dev_mode, dev_pc, trng_timer, dev_out, error_count, rgb_updates,
          current_color, dev_brightness, dev_cmd, dev_script, ncommands,
          nticks, trng_rate_hz, trng_period, armed, command_count, gc_runs,
          usb_j_idx, wifi_idx, torn>>

lifeVars == <<is_running, stop_event>>
poolVars == <<entropy_chunks, entropy_lock>>
prodVars == <<prod, nchunks>>
ghostVars == <<evicted, returned>>
auditorVars == <<audit_arg, audit_called, audit_ret, test_history>>
pqcVars == <<pqc_in, wrapped_data, wrap_raised, key_file, secret_file,
            save_ret>>
linkVars == <<serial_port, serial_connection, nconnects, closed, gui,
             writing, send_ret, failed, nsends, reader>>
dispatchVars == <<rx_line, include_esp_trng, dispatched, dispatch_errors>>
deviceVars == <<dev_mode, dev_pc, trng_timer, dev_out, error_count,
               rgb_updates, current_color, dev_brightness, dev_cmd,
               dev_script, ncommands, nticks, trng_rate_hz, trng_period,
               armed, command_count, gc_runs, usb_j_idx, wifi_idx, torn>>
outVars == <<keys_generated, key_log>>

Range(s) == {s[i] : i \in DOMAIN s}

\* ------------------------------------------------------------ primitives

\* mutant: acquire that does not exclude
CanAcquireUnlocked(lock) == TRUE

\* threading.Lock: acquire succeeds only when nobody holds the lock
CanAcquire(lock) == ~lock

\* mutant: a full deque refuses the new item
DequeAppendDropsNew(q, c) ==
    IF Len(q) >= PoolMaxLen THEN q ELSE Append(q, c)

\* deque(maxlen=PoolMaxLen).append: a full deque drops its leftmost item
DequeAppend(q, c) ==
    IF Len(q) >= PoolMaxLen THEN Append(Tail(q), c) ELSE Append(q, c)

\* mutant: the empty-pool test is missing
PoolEmptyNever(q) == FALSE

\* the test of: if not self.entropy_chunks:
PoolEmpty(q) == q = <<>>

\* len(entropy_pool) in bytes
PoolBytes(pool) ==
    ChunkBytes * Cardinality({i \in DOMAIN pool : pool[i] # HOST})
    + HostRngBytes * Cardinality({i \in DOMAIN pool : pool[i] = HOST})

\* ------------------------------------------------- EnhancedEntropyAuditor
\* Scores are kept in tenths (round(x, 1) * 10), entropy_bpb in thousandths
\* (round(x, 3) * 1000) and weights in hundredths, so that the arithmetic of
\* the auditor is exact integer arithmetic.  A buffer is given by what the
\* loops of the sub-tests count in it:
\*   n               len(data)
\*   ones            sum(bin(b).count("1") for b in data)
\*   runs            bit changes counted by the runs loop
\*   entropy_e4      Shannon entropy of the byte histogram, in 1/10000 bit
\*   chi_square      the chi-square statistic of the histogram, whole part
\*   zlib_ok         zlib.compress did not raise
\*   compressed      len(zlib.compress(data, level=9))
\*   block_var_e6    variance of the block proportions, in millionths
\*   max_run         longest run of equal bits

\* round(a / b) to the nearest integer, for a >= 0 and b > 0
RoundDiv(a, b) == (2 * a + b) \div (2 * b)

\* <<quotient, remainder>> of a * 10^k by b, by long division
RECURSIVE LongDiv(_, _, _)
LongDiv(a, b, k) ==
    IF k = 0
    THEN <<a \div b, a % b>>
    ELSE LET p == LongDiv(a, b, k - 1)
         IN  <<p[1] * 10 + (p[2] * 10) \div b, (p[2] * 10) % b>>

\* round(1000 * a / b) to the nearest integer, for a >= 0 and b > 0
RoundDiv1000(a, b) ==
    LET p == LongDiv(a, b, 3)
    IN  p[1] + (IF 2 * p[2] >= b THEN 1 ELSE 0)

Abs(x) == IF x < 0 THEN -x ELSE x
Max(a, b) == IF a >= b THEN a ELSE b
Min(a, b) == IF a <= b THEN a ELSE b

\* math.log2 of a power of two
RECURSIVE Log2(_)
Log2(x) == IF x <= 1 THEN 0 ELSE 1 + Log2(x \div 2)

\* weights of _calculate_overall_score, in hundredths
W_frequency == 20
W_runs == 15
W_entropy == 25
W_chi_square == 15
W_compression == 10
W_block_frequency == 10
W_longest_run == 5

\* thresholds of pqc_ready: score >= 65.0 and entropy_bpb >= 6.0
PqcScoreMin == 650
PqcBpbMin == 6000

\* freq_score = 100.0 * (1.0 - abs(p1 - 0.5) * 2), p1 = ones / total_bits
FrequencyScore(st) ==
    LET T == 8 * st.n
    IN  RoundDiv(1000 * (T - Abs(2 * st.ones - T)), T)

\* "frequency_ratio": round(p1, 4), in ten-thousandths
FrequencyRatio(st) == RoundDiv(10000 * st.ones, 8 * st.n)

\* freq_pass = 0.45 <= p1 <= 0.55
FrequencyPass(st) ==
    LET T == 8 * st.n
    IN  45 * T <= 100 * st.ones /\ 100 * st.ones <= 55 * T

\* expected_runs = 2 * total_bits * p1 * (1 - p1), times total_bits
ExpectedRunsT(st) == 2 * st.ones * (8 * st.n - st.ones)

\* abs(runs - expected_runs), times total_bits
RunsDeviationT(st) == Abs(st.runs * 8 * st.n - ExpectedRunsT(st))

\* mutant: the score is not clamped at zero
RunsScoreUnclamped(st) ==
    IF ExpectedRunsT(st) = 0
    THEN IF st.runs = 0 THEN 1000 ELSE 0
    ELSE IF RunsDeviationT(st) <= ExpectedRunsT(st)
    THEN RoundDiv1000(ExpectedRunsT(st) - RunsDeviationT(st),
                      ExpectedRunsT(st))
    ELSE -RoundDiv1000(RunsDeviationT(st) - ExpectedRunsT(st),
                       ExpectedRunsT(st))

\* runs_deviation = abs(runs - expected_runs) / (expected_runs + 1e-9)
\* runs_score = 100.0 * max(0, 1.0 - runs_deviation)
RunsScore(st) ==
    IF ExpectedRunsT(st) = 0
    THEN IF st.runs = 0 THEN 1000 ELSE 0
    ELSE RoundDiv1000(Max(0, ExpectedRunsT(st) - RunsDeviationT(st)),
                      ExpectedRunsT(st))

\* runs_pass = runs_deviation < 0.2
RunsPass(st) ==
    IF ExpectedRunsT(st) = 0
    THEN st.runs = 0
    ELSE 5 * RunsDeviationT(st) < ExpectedRunsT(st)

\* "entropy_bpb": round(entropy, 3)
EntropyBpb(st) == RoundDiv(st.entropy_e4, 10)

\* entropy_score = (entropy / 8.0) * 100.0
EntropyScore(st) == RoundDiv(st.entropy_e4, 80)

\* mutant: the chi-square range is not applied
ChiPassAlways(st) == TRUE

\* chi_pass = 150.0 <= chi_square <= 350.0 if n >= 1024 else True
ChiPass(st) ==
    IF st.n >= 1024
    THEN 150 <= st.chi_square /\ st.chi_square <= 350
    ELSE TRUE

\* chi_score = 100.0 if chi_pass else 70.0
ChiScore(st) == IF ChiPass(st) THEN 1000 ELSE 700

\* compression_score = min(100.0, compression_ratio * 130.0);
\* except: compression_score = 100.0
CompressionScore(st) ==
    IF st.zlib_ok
    THEN Min(1000, RoundDiv(1300 * st.compressed, st.n))
    ELSE 1000

\* block_size = min(128, n * 8 // 10)
BlockSize(st) == Min(128, (st.n * 8) \div 10)

\* the block and longest-run statistics are computed: block_size >= 8 and
\* at least two whole blocks
NistComputed(st) ==
    /\ BlockSize(st) >= 8
    /\ (8 * st.n) \div BlockSize(st) >= 2

\* block_score = 100.0 * max(0, 1.0 - (block_variance * 40))
BlockScore(st) ==
    IF NistComputed(st)
    THEN RoundDiv(Max(0, 1000000 - 40 * st.block_var_e6), 1000)
    ELSE 1000

\* block_pass = block_variance < 0.06
BlockPass(st) == NistComputed(st) => st.block_var_e6 < 60000

\* expected_max_run = math.log2(len(bits)) + 3
ExpectedMaxRun(st) == Log2(8 * st.n) + 3

\* run_score = 100.0 * max(0, 1.0 - abs(max_run - expected) / expected)
LongestRunScore(st) ==
    RoundDiv(1000 * Max(0, ExpectedMaxRun(st)
                             - Abs(st.max_run - ExpectedMaxRun(st))),
             ExpectedMaxRun(st))

\* the tests dict built by the three sub-tests; "present" holds the score
\* keys the dict has
Tests(st) ==
    [frequency_test |-> FrequencyPass(st),
     frequency_score |-> FrequencyScore(st),
     frequency_ratio |-> FrequencyRatio(st),
     runs_test |-> RunsPass(st),
     runs_score |-> RunsScore(st),
     entropy_bpb |-> EntropyBpb(st),
     entropy_score |-> EntropyScore(st),
     chi_square_test |-> ChiPass(st),
     chi_square_score |-> ChiScore(st),
     compression_score |-> CompressionScore(st),
     block_frequency_test |-> BlockPass(st),
     block_frequency_score |-> BlockScore(st),
     longest_run_score |-> IF NistComputed(st) THEN LongestRunScore(st)
                           ELSE 0,
     present |-> {"frequency_score", "runs_score", "entropy_score",
                  "chi_square_score", "compression_score",
                  "block_frequency_score"}
                 \cup (IF NistComputed(st) THEN {"longest_run_score"}
                       ELSE {})]

\* _calculate_overall_score: score of the loop, times 1000
WeightedSum(tests) ==
    tests.frequency_score * W_frequency
    + tests.runs_score * W_runs
    + tests.entropy_score * W_entropy
    + tests.chi_square_score * W_chi_square
    + tests.compression_score * W_compression
    + tests.block_frequency_score * W_block_frequency
    + (IF "longest_run_score" \in tests.present
       THEN tests.longest_run_score * W_longest_run ELSE 0)

\* _calculate_overall_score: total_weight of the loop, in hundredths
TotalWeight(tests) ==
    W_frequency + W_runs + W_entropy + W_chi_square + W_compression
    + W_block_frequency
    + (IF "longest_run_score" \in tests.present THEN W_longest_run ELSE 0)

NoTests ==
    [frequency_test |-> FALSE, frequency_score |-> 0,
     frequency_ratio |-> 0, runs_test |-> FALSE,
     runs_score |-> 0, entropy_bpb |-> 0, entropy_score |-> 0,
     chi_square_test |-> FALSE, chi_square_score |-> 0,
     compression_score |-> 0, block_frequency_test |-> FALSE,
     block_frequency_score |-> 0, longest_run_score |-> 0, present |-> {}]

\* EnhancedEntropyAuditor.comprehensive_audit: the readiness flag, given
\* whether the score and the entropy per byte reach their thresholds
AuditReady(score_ok, bpb_ok, n) ==
    score_ok /\ bpb_ok /\ n >= MinSampleBytes

\* mutant: the zero-length test is missing
DegenerateNever(n) == FALSE

\* if n == 0: return {"score": 0.0, "tests": {}, "pqc_ready": False}
Degenerate(n) == n = 0

\* What a call of comprehensive_audit does: the dict it returns, or the
\* exception it raises; how many sub-tests it called; whether it appended
\* the result to test_history
ComprehensiveAuditResult(st) ==
    IF Degenerate(st.n)
    THEN [raised |-> FALSE, score |-> 0, tests |-> NoTests,
          pqc_ready |-> FALSE, sample_size |-> 0, entropy_bpb |-> 0,
          subtests |-> 0, appended |-> FALSE]
    ELSE IF st.n = 0
    THEN \* p1 = ones / total_bits raises ZeroDivisionError
         [raised |-> TRUE, score |-> 0, tests |-> NoTests,
          pqc_ready |-> FALSE, sample_size |-> 0, entropy_bpb |-> 0,
          subtests |-> 1, appended |-> FALSE]
    ELSE LET tests == Tests(st)
         IN  [raised |-> FALSE,
              score |-> RoundDiv(WeightedSum(tests), TotalWeight(tests)),
              tests |-> tests,
              pqc_ready |->
                  AuditReady(WeightedSum(tests)
                                 >= PqcScoreMin * TotalWeight(tests),
                             tests.entropy_bpb >= PqcBpbMin,
                             st.n),
              sample_size |-> st.n,
              entropy_bpb |-> tests.entropy_bpb,
              subtests |-> 3,
              appended |-> TRUE]

\* What one pass through process_entropy_window has done so far
BlankWin ==
    [drained |-> FALSE,      \* the tick drained a non-empty pool
     empty |-> FALSE,        \* the tick found the pool empty
     pool |-> <<>>,          \* entropy_pool
     include_host_rng |-> FALSE,  \* self.include_host_rng as the window read it
     audit |-> "none",       \* "ok", or "default" after an audit exception
     audit_input |-> <<>>,   \* argument of comprehensive_audit
     pqc_ready |-> FALSE,    \* audit['pqc_ready']
     audit_events |-> 0,     \* audit_updated emissions
     key_input |-> <<>>,     \* bytes hashed into key_data
     forged |-> 0,           \* increments of keys_generated
     status |-> {},          \* explanatory status_update emissions
     enabled |-> FALSE,      \* local pqc_enabled
     kyber_enabled |-> FALSE,   \* local kyber_enabled
     falcon_enabled |-> FALSE,  \* local falcon_enabled
     kyber |-> "none",       \* wrap_key_with_kyber: "ok" or "failed"
     falcon |-> "none",      \* wrap_key_with_falcon: "ok" or "failed"
     key_type |-> "classical",
     artifact |-> "none",    \* save_pqc_wrapped_key: "saved" or "failed"
     classical_calls |-> 0,  \* calls of save_classical_key
     lines |-> <<>>,         \* types of the key-log lines written
     key_events |-> 0,       \* key_forged / pqc_key_generated emissions
     errors |-> {}]          \* error_occurred emissions, by kind

\* ------------------------------------------------------------------ Init
\* The buffer statistics of b"" and the auditor before any call
\* ------------------------------------------------------------ PQCManager
\* Key bytes are ByteBits wide.  What the pqcrypto_bindings functions return
\* is opaque: PUBLIC_KEY, SECRET_KEY, CIPHERTEXT and SIGNATURE are byte
\* strings told apart from each other and from every string of key bytes.
\* The shared secret of kyber_encapsulate is a string of key bytes.

PUBLIC_KEY == <<-2>>
SECRET_KEY == <<-3>>
CIPHERTEXT == <<-4>>
SIGNATURE == <<-5>>

RECURSIVE Pow2(_)
Pow2(k) == IF k = 0 THEN 1 ELSE 2 * Pow2(k - 1)

Bytes == 0..(Pow2(ByteBits) - 1)

ByteStrings(maxlen) == UNION {[1..k -> Bytes] : k \in 0..maxlen}

\* bit j of byte x
Bit(x, j) == (x \div Pow2(j)) % 2

\* x ^ y on bytes
RECURSIVE XorBits(_, _, _)
XorBits(x, y, bits) ==
    IF bits = 0 THEN 0
    ELSE ((x + y) % 2) + 2 * XorBits(x \div 2, y \div 2, bits - 1)

Xor(x, y) == XorBits(x, y, ByteBits)

\* mutant: the wrapped key is cut to the length of the shared secret
XorWrapTruncated(classical_key, shared_secret) ==
    [i \in 1..Min(Len(classical_key), Len(shared_secret)) |->
        Xor(classical_key[i], shared_secret[i])]

\* wrapped_key = bytearray(classical_key); for i in range(min(...)):
\* wrapped_key[i] ^= shared_secret[i]
XorWrap(classical_key, shared_secret) ==
    [i \in 1..Len(classical_key) |->
        IF i <= Min(Len(classical_key), Len(shared_secret))
        THEN Xor(classical_key[i], shared_secret[i])
        ELSE classical_key[i]]

\* A dict of byte strings: the keys it has, and the value under each
NoData ==
    [fields |-> {}, type |-> "none", wrapped_key |-> <<>>, key |-> <<>>,
     signature |-> <<>>, public_key |-> <<>>, secret_key |-> <<>>,
     ciphertext |-> <<>>, shared_secret |-> <<>>]

\* PQCManager.wrap_key_with_kyber: the dict it returns
KyberData(classical_key, shared_secret) ==
    [NoData EXCEPT
        !.fields = {"wrapped_key", "public_key", "secret_key", "ciphertext",
                    "shared_secret", "type"},
        !.type = "kyber512_wrapped",
        !.wrapped_key = XorWrap(classical_key, shared_secret),
        !.public_key = PUBLIC_KEY,
        !.secret_key = SECRET_KEY,
        !.ciphertext = CIPHERTEXT,
        !.shared_secret = shared_secret]

\* PQCManager.wrap_key_with_falcon: the dict it returns
FalconData(classical_key) ==
    [NoData EXCEPT
        !.fields = {"key", "signature", "public_key", "secret_key", "type"},
        !.type = "falcon512_signed",
        !.key = classical_key,
        !.signature = SIGNATURE,
        !.public_key = PUBLIC_KEY,
        !.secret_key = SECRET_KEY]

\* base64.b64encode(x).decode('ascii'): a text, not the bytes it encodes
B64(x) == [b64 |-> x]

\* The JSON object written to <name>_wrapped.key
NoJson ==
    [fields |-> {}, type |-> "none", wrapped_key |-> B64(<<>>),
     ciphertext |-> B64(<<>>), key |-> B64(<<>>), signature |-> B64(<<>>),
     public_key |-> B64(<<>>), secret_key |-> B64(<<>>)]

\* mutant: the secret key is put into the JSON object as well
SaveDataWithSecret(wrapped) ==
    [NoJson EXCEPT
        !.fields = {"type", "created", "public_key", "secret_key"},
        !.type = wrapped.type,
        !.public_key = B64(wrapped.public_key),
        !.secret_key = B64(wrapped.secret_key)]

\* save_pqc_wrapped_key: save_data as handed to json.dump
SaveData(wrapped) ==
    IF "wrapped_key" \in wrapped.fields
    THEN [NoJson EXCEPT
            !.fields = {"type", "created", "wrapped_key", "ciphertext",
                        "public_key"},
            !.type = wrapped.type,
            !.wrapped_key = B64(wrapped.wrapped_key),
            !.ciphertext = B64(wrapped.ciphertext),
            !.public_key = B64(wrapped.public_key)]
    ELSE [NoJson EXCEPT
            !.fields = {"type", "created", "key", "signature", "public_key"},
            !.type = wrapped.type,
            !.key = B64(wrapped.key),
            !.signature = B64(wrapped.signature),
            !.public_key = B64(wrapped.public_key)]

\* what a call of wrap_key_with_kyber or save_pqc_wrapped_key is given:
\* the classical key, what the bindings do, and what the disk does
NoWrapInput ==
    [classical_key |-> <<>>, shared_secret |-> <<>>, bindings_ok |-> TRUE,
     disk |-> "ok"]

NoBuffer ==
    [n |-> 0, ones |-> 0, runs |-> 0, entropy_e4 |-> 0, chi_square |-> 0,
     zlib_ok |-> TRUE, compressed |-> 0, block_var_e6 |-> 0, max_run |-> 0]

\* CIPHERTANWorker.__init__
InitWorker ==
    /\ PQC_AVAILABLE \in BOOLEAN
    /\ is_running = FALSE
    /\ stop_event = FALSE
    /\ entropy_chunks = <<>>
    /\ entropy_lock = FALSE
    /\ prod = [p \in Producers |-> "idle"]
    /\ nchunks = 0
    /\ nthreads = 0
    /\ pc = [t \in Threads |-> "none"]
    /\ w = [t \in Threads |-> BlankWin]
    /\ keys_generated = 0
    /\ key_log = <<>>
    /\ evicted = {}
    /\ returned = [c \in Chunks |-> 0]

\* EnhancedEntropyAuditor.__init__: test_history = deque(maxlen=100)
InitAuditor ==
    /\ audit_called = FALSE
    /\ audit_ret = [raised |-> FALSE, score |-> 0, tests |-> NoTests,
                    pqc_ready |-> FALSE, sample_size |-> 0,
                    entropy_bpb |-> 0, subtests |-> 0, appended |-> FALSE]
    /\ test_history = 0

\* ------------------------------------------------------- the serial link
\* Three threads call send_serial_command: the GUI thread (connect_serial's
\* handshake and the commands of the main window), the pynput listener
\* thread (on_key_press -> update_rgb_chaos) and the thread the timers'
\* slots run on (request_esp_status, _idle_rgb_tick).
Writers == {"gui", "listener", "worker"}


\* mutant: the version query goes out before the brightness
HandshakeVersionFirst == <<"VER?", "BRI:", "STAT?", "RGB:0,64,128">>

\* the commands connect_serial sends, in the order of lines 819-825
Handshake == <<"BRI:", "VER?", "STAT?", "RGB:0,64,128">>

\* self.lights_enabled = True
lights_enabled == TRUE

NoWrite == [cmd |-> "none", conn |-> 0]

\* The GUI thread is not inside connect_serial
GuiIdle ==
    [pc |-> "idle", from_start |-> FALSE, reset |-> FALSE, hs |-> <<>>,
     events |-> <<>>]

\* the GUI thread is free to run a handler
GuiFree == gui.pc = "idle" /\ writing["gui"] = NoWrite

\* send_serial_command(command) called on thread t, up to the point where
\* it is inside serial_connection.write: False at once without a
\* connection
SendBegin(t, cmd) ==
    IF serial_connection = 0
    THEN /\ send_ret' = [send_ret EXCEPT ![t] = "false"]
         /\ UNCHANGED <<writing, nsends>>
    ELSE /\ nsends < MaxSends
         /\ writing' = [writing EXCEPT
                           ![t] = [cmd |-> cmd, conn |-> serial_connection]]
         /\ send_ret' = [send_ret EXCEPT ![t] = "pending"]
         /\ nsends' = nsends + 1

\* mutant: a failed write drops the connection
AfterWriteFailureReset(conn) == 0

\* except serial.SerialTimeoutException / except Exception: the handlers
\* emit error_occurred and return False; self.serial_connection stays
AfterWriteFailure(conn) == conn

\* the payloads handle_serial_response never decodes
Markers == {<<"E", "R", "R">>, <<"O", "K">>, <<"O", "F", "F">>}

\* binascii.a2b_base64 as base64.b64decode calls it (validate=False),
\* from character i with quad_pos characters of the current quad read and
\* pads pad characters seen: a pad completing a quad ends the scan, a
\* character outside the alphabet is skipped, and the input must end on a
\* quad boundary.  The letters of the alphabet that occur in the lines
\* are E, R, O, K and F.
RECURSIVE B64Scan(_, _, _, _)
B64Scan(s, i, quad_pos, pads) ==
    IF i > Len(s) THEN quad_pos = 0
    ELSE IF s[i] = "="
         THEN IF quad_pos >= 2 /\ quad_pos + pads + 1 >= 4
              THEN TRUE
              ELSE B64Scan(s, i + 1, quad_pos,
                           IF quad_pos >= 2 THEN pads + 1 ELSE pads)
         ELSE IF s[i] \in {"E", "R", "O", "K", "F"}
              THEN B64Scan(s, i + 1, (quad_pos + 1) % 4, 0)
              ELSE B64Scan(s, i + 1, quad_pos, pads)

\* base64.b64decode(str) returns: the str is ASCII and the scan succeeds
B64Decodes(s) ==
    /\ \A i \in 1..Len(s) : s[i] # "\\u00e9"
    /\ B64Scan(s, 1, 0, 0)

\* the stripped response lines: head is the prefix the handler matches.
\* A TRNG: payload is a marker or has at most MaxPayload characters: a
\* letter of the alphabet, the pad, an ASCII character outside the
\* alphabet, a non-ASCII character.
Lines ==
    [head : {"TRNG:"},
     body : Markers \cup UNION {[1..n -> {"O", "=", "!", "\\u00e9"}] :
                                  n \in 0..MaxPayload}]
        \cup [head : {"STATUS:"}, body : {<<"{", "}">>, <<"{">>, <<>>}]
        \cup [head : {"Cipher-chan Enhanced", "RND:", "KEY:", "other"},
              body : {<<>>}]

\* mutant: add_trng_entropy does not look at the inclusion flag
TrngIncludedAlways(flag) == TRUE

\* if not self.include_esp_trng: return
TrngIncluded(flag) == flag

\* ------------------------------------------------ device command lines

\* commands whose handler is modelled by whether its body raises
PlainVerbs == {"PIN:", "RND?", "POOL:", "VER?", "STAT?", "DEBUG:",
               "PERSONALITY:", "TEST?"}

\* the stripped command lines the device reads: verb is the branch of
\* handle_command the line takes, fail the point where its handler raises,
\* parts the comma-separated fields of the payload.  A field is an integer
\* literal or not; an RGB: payload has three fields, or too few or too
\* many; a BRI: payload is a percentage of full brightness; a TRNG:START
\* has no rate field or one, and fails in Timer(-1) or trng_timer.init.
Commands ==
    LET Fields(values) ==
            [int : {TRUE}, val : values] \cup {[int |-> FALSE, val |-> 0]}
    IN  [verb : {"RGB:"}, fail : {"none"},
         parts : [1..3 -> Fields({-1, 0, 255, 256})]
                    \cup UNION {[1..n -> {[int |-> TRUE, val |-> 0]}] :
                                   n \in {2, MaxParts}}]
            \cup [verb : {"BRI:"}, fail : {"none"},
                  parts : {<<p>> : p \in Fields({0, 50, 100, 150})}]
            \cup [verb : PlainVerbs, fail : {"none", "raise"},
                  parts : {<<>>}]
            \cup [verb : {"RESET", "", "unknown"}, fail : {"none"},
                  parts : {<<>>}]
            \cup [verb : {"TRNG:START"}, fail : {"none", "timer"},
                  parts : {<<>>} \cup
                          {<<p>> : p \in Fields({0, 1, 50, 51})}]
            \cup [verb : {"TRNG:STOP"}, fail : {"none", "raise"},
                  parts : {<<>>}]

\* CIPHERTANWorker.__init__: serial_port = None, serial_connection = None,
\* no response read or being handled; the device before main() runs, as
\* ciphertanSystem.__init__ and ciphertanHardware.__init__ will leave it:
\* counters at zero, LED off, full brightness, no timer
InitLink ==
    /\ serial_port = FALSE
    /\ serial_connection = 0
    /\ nconnects = 0
    /\ closed = {}
    /\ gui = GuiIdle
    /\ writing = [t \in Writers |-> NoWrite]
    /\ send_ret = [t \in Writers |-> "none"]
    /\ failed = {}
    /\ nsends = 0
    /\ reader = [k \in 1..MaxConnects |-> "none"]
    /\ rx_line = [head |-> "none", body |-> <<>>]
    /\ dispatched = [done |-> TRUE, before |-> 0]
    /\ dispatch_errors = 0
    /\ dev_mode = "boot"
    /\ dev_pc = "loop"
    /\ trng_timer = FALSE
    /\ dev_out = <<>>
    /\ error_count = 0
    /\ rgb_updates = 0
    /\ current_color = <<0, 0, 0>>
    /\ dev_brightness = 100
    /\ dev_cmd = [verb |-> "none", fail |-> "none", parts |-> <<>>]
    /\ dev_script = "none"
    /\ ncommands = 0
    /\ nticks = 0
    /\ trng_rate_hz = DefaultRate
    /\ trng_period = 0
    /\ armed = 0
    /\ command_count = 0
    /\ gc_runs = 0
    /\ usb_j_idx = 0
    /\ wifi_idx = 0
    /\ torn = FALSE

\* PQCManager: nothing wrapped, nothing saved.  A file of KEYS_DIR is
\* whether it was written, and what is in it.
InitPqc ==
    /\ wrapped_data = NoData
    /\ wrap_raised = FALSE
    /\ key_file = [written |-> FALSE, json |-> NoJson]
    /\ secret_file = [written |-> FALSE, bytes |-> <<>>]
    /\ save_ret = "none"

Init ==
    /\ InitWorker
    /\ InitAuditor
    /\ audit_arg = NoBuffer
    /\ InitPqc
    /\ InitLink
    /\ include_esp_trng = TRUE
    /\ pqc_in = NoWrapInput

\* ------------------------------------------------------------- lifecycle

\* Event.set(): every thread blocked in stop_event.wait is woken with True
Notify(pcs) ==
    [t \in Threads |-> IF pcs[t] = "wait" THEN "signaled" ELSE pcs[t]]

\* mutant: start_system without the test "if self.is_running: return"
StartChaosUnguarded ==
    /\ GuiFree
    /\ nthreads < MaxThreads
    /\ is_running' = TRUE
    /\ stop_event' = FALSE
    /\ IF serial_port
       THEN /\ gui' = [GuiIdle EXCEPT !.pc = "open", !.from_start = TRUE]
            /\ UNCHANGED <<nthreads, pc>>
       ELSE /\ nthreads' = nthreads + 1
            /\ pc' = [pc EXCEPT ![nthreads + 1] = "enter"]
            /\ UNCHANGED gui
    /\ UNCHANGED <<auditorVars, pqcVars, dispatchVars, deviceVars>>
    /\ UNCHANGED <<serial_port, serial_connection, nconnects, closed,
                   writing, send_ret, failed, nsends, reader>>
    /\ UNCHANGED <<PQC_AVAILABLE, poolVars, prodVars, w, outVars, ghostVars>>

\* CIPHERTANMainWindow.start_chaos: apply the settings, then start_system.
\* With a serial port set start_system calls connect_serial before it
\* creates the window-processing thread.
StartChaos ==
    /\ GuiFree
    /\ IF is_running
       THEN UNCHANGED <<lifeVars, nthreads, pc, gui>>
       ELSE /\ nthreads < MaxThreads
            /\ is_running' = TRUE
            /\ stop_event' = FALSE
            /\ IF serial_port
               THEN /\ gui' = [GuiIdle EXCEPT !.pc = "open",
                                               !.from_start = TRUE]
                    /\ UNCHANGED <<nthreads, pc>>
               ELSE /\ nthreads' = nthreads + 1
                    /\ pc' = [pc EXCEPT ![nthreads + 1] = "enter"]
                    /\ UNCHANGED gui
    /\ UNCHANGED <<auditorVars, pqcVars, dispatchVars, deviceVars>>
    /\ UNCHANGED <<serial_port, serial_connection, nconnects, closed,
                   writing, send_ret, failed, nsends, reader>>
    /\ UNCHANGED <<PQC_AVAILABLE, poolVars, prodVars, w, outVars, ghostVars>>

\* CIPHERTANWorker.stop_system
StopSystem ==
    /\ GuiFree
    /\ is_running' = FALSE
    /\ stop_event' = TRUE
    /\ pc' = Notify(pc)
    /\ closed' = IF serial_connection # 0
                 THEN closed \cup {serial_connection} ELSE closed
    /\ serial_connection' = 0
    /\ UNCHANGED <<auditorVars, pqcVars, dispatchVars, deviceVars>>
    /\ UNCHANGED <<serial_port, nconnects, gui, writing, send_ret, failed,
                   nsends, reader>>
    /\ UNCHANGED <<PQC_AVAILABLE, poolVars, prodVars, nthreads, w,
                   outVars, ghostVars>>

\* ------------------------------------------------------------- producers

\* The guard each producer evaluates before it builds a chunk
ProducerAccepts(p) ==
    CASE p = "key"   -> is_running
      [] p = "mouse" -> is_running
      [] p = "trng"  -> is_running

\* chunks built by a producer and not yet appended
InFlight == Cardinality({p \in Producers : prod[p] # "idle"})

\* on_key_press / add_mouse_entropy / handle_serial_response up to the
\* point where the chunk is built and the lock is requested
ProducerEvent(p, cap) ==
    /\ prod[p] = "idle"
    /\ ProducerAccepts(p)
    /\ nchunks + InFlight < cap
    /\ IF p = "key" /\ lights_enabled /\ serial_connection # 0
       THEN \* update_rgb_chaos: send_serial_command(f"RGB:{r},{g},{b}")
            /\ SendBegin("listener", "RGB:")
            /\ prod' = [prod EXCEPT ![p] = "rgb"]
       ELSE /\ prod' = [prod EXCEPT ![p] = "acquire"]
            /\ UNCHANGED <<writing, send_ret, nsends>>
    /\ UNCHANGED <<serial_port, serial_connection, nconnects, closed, gui,
                   failed, reader>>
    /\ UNCHANGED <<auditorVars, pqcVars, dispatchVars, deviceVars>>
    /\ UNCHANGED <<PQC_AVAILABLE, lifeVars, poolVars, nchunks, nthreads, pc,
                   w, outVars, ghostVars>>

\* with self.entropy_lock:
ProducerLock(p) ==
    /\ prod[p] = "acquire"
    /\ CanAcquire(entropy_lock)
    /\ entropy_lock' = TRUE
    /\ prod' = [prod EXCEPT ![p] = "held"]
    /\ UNCHANGED <<auditorVars, pqcVars, linkVars, dispatchVars, deviceVars>>
    /\ UNCHANGED <<PQC_AVAILABLE, lifeVars, entropy_chunks, nchunks,
                   nthreads, pc, w, outVars, ghostVars>>

\* self.entropy_chunks.append(chunk), then the lock is released; the chunk
\* takes the next arrival number
ProducerAppend(p) ==
    /\ prod[p] = "held"
    /\ nchunks' = nchunks + 1
    /\ entropy_chunks' = DequeAppend(entropy_chunks, nchunks + 1)
    /\ evicted' = evicted \cup (Range(entropy_chunks) \ Range(entropy_chunks'))
    /\ entropy_lock' = FALSE
    /\ prod' = [prod EXCEPT ![p] = "idle"]
    /\ UNCHANGED <<auditorVars, pqcVars, linkVars, dispatchVars, deviceVars>>
    /\ UNCHANGED <<PQC_AVAILABLE, lifeVars, nthreads, pc, w, outVars,
                   returned>>

\* ------------------------------------------- entropy_processing_loop

\* mutant: the wait is a plain sleep that does not look at the stop signal
EnterWaitNoCancel(t) ==
    /\ pc[t] = "enter"
    /\ pc' = [pc EXCEPT ![t] = "wait"]
    /\ w' = [w EXCEPT ![t] = BlankWin]
    /\ UNCHANGED <<auditorVars, pqcVars, linkVars, dispatchVars, deviceVars>>
    /\ UNCHANGED <<PQC_AVAILABLE, lifeVars, poolVars, prodVars,
                   nthreads, outVars, ghostVars>>

\* while not self.stop_event.wait(self.window_seconds): the call itself
EnterWait(t) ==
    /\ pc[t] = "enter"
    /\ pc' = [pc EXCEPT ![t] = IF stop_event THEN "exited" ELSE "wait"]
    /\ w' = [w EXCEPT ![t] = BlankWin]
    /\ UNCHANGED <<auditorVars, pqcVars, linkVars, dispatchVars, deviceVars>>
    /\ UNCHANGED <<PQC_AVAILABLE, lifeVars, poolVars, prodVars,
                   nthreads, outVars, ghostVars>>

\* the wait times out after window_seconds: a tick
WaitTimeout(t) ==
    /\ pc[t] = "wait"
    /\ pc' = [pc EXCEPT ![t] = "check"]
    /\ UNCHANGED <<auditorVars, pqcVars, linkVars, dispatchVars, deviceVars>>
    /\ UNCHANGED <<PQC_AVAILABLE, lifeVars, poolVars, prodVars,
                   nthreads, w, outVars, ghostVars>>

\* the wait was woken by stop_event.set(): it returns True and the loop ends
WaitSignaled(t) ==
    /\ pc[t] = "signaled"
    /\ pc' = [pc EXCEPT ![t] = "exited"]
    /\ UNCHANGED <<auditorVars, pqcVars, linkVars, dispatchVars, deviceVars>>
    /\ UNCHANGED <<PQC_AVAILABLE, lifeVars, poolVars, prodVars,
                   nthreads, w, outVars, ghostVars>>

\* if not self.is_running: continue
CheckRunning(t) ==
    /\ pc[t] = "check"
    /\ pc' = [pc EXCEPT ![t] = IF is_running THEN "lock" ELSE "enter"]
    /\ UNCHANGED <<auditorVars, pqcVars, linkVars, dispatchVars, deviceVars>>
    /\ UNCHANGED <<PQC_AVAILABLE, lifeVars, poolVars, prodVars,
                   nthreads, w, outVars, ghostVars>>

\* ------------------------------------------- process_entropy_window

\* with self.entropy_lock:
WindowLock(t) ==
    /\ pc[t] = "lock"
    /\ CanAcquire(entropy_lock)
    /\ entropy_lock' = TRUE
    /\ pc' = [pc EXCEPT ![t] = "drain"]
    /\ UNCHANGED <<auditorVars, pqcVars, linkVars, dispatchVars, deviceVars>>
    /\ UNCHANGED <<PQC_AVAILABLE, lifeVars, entropy_chunks, prodVars,
                   nthreads, w, outVars, ghostVars>>

\* if not self.entropy_chunks: return
\* entropy_pool = b''.join(self.entropy_chunks)
DrainRead(t) ==
    /\ pc[t] = "drain"
    /\ IF PoolEmpty(entropy_chunks)
       THEN /\ entropy_lock' = FALSE
            /\ w' = [w EXCEPT ![t].empty = TRUE]
            /\ pc' = [pc EXCEPT ![t] = "enter"]
       ELSE /\ w' = [w EXCEPT ![t].drained = TRUE,
                              ![t].pool = entropy_chunks]
            /\ pc' = [pc EXCEPT ![t] = "clear"]
            /\ UNCHANGED entropy_lock
    /\ UNCHANGED <<auditorVars, pqcVars, linkVars, dispatchVars, deviceVars>>
    /\ UNCHANGED <<PQC_AVAILABLE, lifeVars, entropy_chunks, prodVars,
                   nthreads, keys_generated, key_log, ghostVars>>

\* self.entropy_chunks.clear(), then the lock is released
DrainClear(t) ==
    /\ pc[t] = "clear"
    /\ entropy_chunks' = <<>>
    /\ entropy_lock' = FALSE
    /\ returned' = [c \in Chunks |->
                      IF c \in Range(w[t].pool) THEN returned[c] + 1
                      ELSE returned[c]]
    /\ pc' = [pc EXCEPT ![t] = "audit"]
    /\ UNCHANGED <<auditorVars, pqcVars, linkVars, dispatchVars, deviceVars>>
    /\ UNCHANGED <<PQC_AVAILABLE, lifeVars, prodVars, nthreads, w,
                   outVars, evicted>>

\* process_entropy_window returns: its local buffers are released, what it
\* emitted and wrote stays on record until the loop calls wait again
Return(win) ==
    [win EXCEPT !.pool = <<>>, !.include_host_rng = FALSE,
                !.audit_input = <<>>, !.key_input = <<>>]

\* mutant: the loop has no handler and the thread dies
LoopUncaught(t, win) ==
    /\ w' = [w EXCEPT ![t] = Return(win)]
    /\ pc' = [pc EXCEPT ![t] = "exited"]

\* an exception that leaves process_entropy_window is caught by the loop:
\* except Exception as e: self.error_occurred.emit("Entropy processing error")
LoopCatch(t, win) ==
    /\ w' = [w EXCEPT ![t] = Return([win EXCEPT !.errors = @ \cup {"loop"}])]
    /\ pc' = [pc EXCEPT ![t] = "enter"]

\* mutant: the host RNG block is appended whatever the setting
AddHostRngAlways(win, include_host_rng) ==
    [win EXCEPT !.pool = Append(@, HOST),
                !.include_host_rng = include_host_rng]

\* if self.include_host_rng: entropy_pool += os.urandom(32)
AddHostRng(win, include_host_rng) ==
    IF include_host_rng
    THEN [win EXCEPT !.pool = Append(@, HOST), !.include_host_rng = TRUE]
    ELSE win

\* the audit used when comprehensive_audit raises:
\* audit = {"score": 75.0, "pqc_ready": True, "entropy_bpb": 7.0}
DefaultAuditReady == TRUE

\* try: audit = comprehensive_audit(entropy_pool); audit_updated.emit(audit)
\* except: error_occurred.emit("Audit error"); audit = default
RunAudit(win, raises, score_ok, bpb_ok) ==
    IF raises
    THEN [win EXCEPT !.audit = "default",
                     !.audit_input = win.pool,
                     !.pqc_ready = DefaultAuditReady,
                     !.errors = @ \cup {"audit"}]
    ELSE [win EXCEPT !.audit = "ok",
                     !.audit_input = win.pool,
                     !.pqc_ready = AuditReady(score_ok, bpb_ok,
                                              PoolBytes(win.pool)),
                     !.audit_events = @ + 1]

\* process_entropy_window from the host RNG to the end of the audit stage;
\* os.urandom is outside every try of the routine
AuditStage(t) ==
    /\ pc[t] = "audit"
    /\ \E include_host_rng, urandom_ok, raises, score_ok, bpb_ok \in BOOLEAN :
         /\ ~include_host_rng => urandom_ok
         /\ (raises \/ ~urandom_ok) => (~score_ok /\ ~bpb_ok)
         /\ ~urandom_ok => ~raises
         /\ IF urandom_ok
            THEN /\ w' = [w EXCEPT ![t] =
                            RunAudit(AddHostRng(w[t], include_host_rng),
                                     raises, score_ok, bpb_ok)]
                 /\ pc' = [pc EXCEPT ![t] = "forge"]
            ELSE LoopCatch(t, w[t])
    /\ UNCHANGED <<auditorVars, pqcVars, linkVars, dispatchVars, deviceVars>>
    /\ UNCHANGED <<PQC_AVAILABLE, lifeVars, poolVars, prodVars, nthreads,
                   outVars, ghostVars>>

\* mutant: the audit verdict is not consulted
EligibleIgnoresAudit(enabled, available, ready) == enabled /\ available

\* if pqc_enabled and pqc_available and pqc_ready:
Eligible(enabled, available, ready) == enabled /\ available /\ ready

\* the else branch of the PQC decision, before save_classical_key:
\* if pqc_enabled and not pqc_ready: "PQC enabled but entropy not ready"
\* elif pqc_enabled and not pqc_available: "... bindings not available"
PqcStatus(enabled, available, ready) ==
    IF Eligible(enabled, available, ready) THEN {}
    ELSE IF enabled /\ ~ready THEN {"not_ready"}
    ELSE IF enabled /\ ~available THEN {"not_available"}
    ELSE {}

\* the bytes hashed: entropy_pool + b"CIPHER_CHAN_V2"
KeyInput(pool) == Append(pool, CIPHER_CHAN_V2)

\* key_data = sha256(entropy_pool + b"CIPHER_CHAN_V2"); keys_generated += 1;
\* the PQC decision
Forge(t) ==
    /\ pc[t] = "forge"
    /\ keys_generated' = keys_generated + 1
    /\ \E pqc_enabled \in BOOLEAN :
         /\ w' = [w EXCEPT ![t].key_input = KeyInput(w[t].pool),
                           ![t].forged = @ + 1,
                           ![t].enabled = pqc_enabled,
                           ![t].status =
                               PqcStatus(pqc_enabled, PQC_AVAILABLE,
                                         w[t].pqc_ready)]
         /\ pc' = [pc EXCEPT ![t] =
                     IF Eligible(pqc_enabled, PQC_AVAILABLE, w[t].pqc_ready)
                     THEN "wrap" ELSE "classical"]
    /\ UNCHANGED <<auditorVars, pqcVars, linkVars, dispatchVars, deviceVars>>
    /\ UNCHANGED <<PQC_AVAILABLE, lifeVars, poolVars, prodVars, nthreads,
                   key_log, ghostVars>>

\* if kyber_enabled: try wrap_key_with_kyber except error_occurred
TryKyber(win, kyber_enabled, ok) ==
    IF kyber_enabled
    THEN IF ok
         THEN [win EXCEPT !.kyber = "ok", !.key_type = "kyber512_wrapped"]
         ELSE [win EXCEPT !.kyber = "failed", !.errors = @ \cup {"kyber"}]
    ELSE win

\* mutant: Falcon runs whenever it is enabled
TryFalconAlways(win, falcon_enabled, ok) ==
    IF falcon_enabled
    THEN IF ok
         THEN [win EXCEPT !.falcon = "ok", !.key_type = "falcon512_signed"]
         ELSE [win EXCEPT !.falcon = "failed", !.errors = @ \cup {"falcon"}]
    ELSE win

\* if not wrapped_data and falcon_enabled: try wrap_key_with_falcon except
TryFalcon(win, falcon_enabled, ok) ==
    IF win.kyber # "ok" /\ falcon_enabled
    THEN IF ok
         THEN [win EXCEPT !.falcon = "ok", !.key_type = "falcon512_signed"]
         ELSE [win EXCEPT !.falcon = "failed", !.errors = @ \cup {"falcon"}]
    ELSE win

\* wrapped_data is set
Wrapped(win) == win.kyber = "ok" \/ win.falcon = "ok"

\* mutant: the total failure is not reported
WrapFailedSilent(win) == win

\* else: error_occurred.emit("PQC wrapping failed completely, falling back")
WrapFailed(win) == [win EXCEPT !.errors = @ \cup {"pqc_failed"}]

\* the wrap stage: Kyber, then Falcon, then the choice of the branch
WrapStage(t) ==
    /\ pc[t] = "wrap"
    /\ \E kyber_enabled, kyber_ok, falcon_enabled, falcon_ok \in BOOLEAN :
         LET r == [w[t] EXCEPT !.kyber_enabled = kyber_enabled,
                               !.falcon_enabled = falcon_enabled]
             k == TryKyber(r, kyber_enabled, kyber_ok)
             f == TryFalcon(k, falcon_enabled, falcon_ok)
         IN  /\ ~kyber_enabled => kyber_ok
             /\ ~(k.kyber # "ok" /\ falcon_enabled) => falcon_ok
             /\ IF Wrapped(f)
                THEN /\ w' = [w EXCEPT ![t] = f]
                     /\ pc' = [pc EXCEPT ![t] = "persist"]
                ELSE /\ w' = [w EXCEPT ![t] = WrapFailed(f)]
                     /\ pc' = [pc EXCEPT ![t] = "classical"]
    /\ UNCHANGED <<auditorVars, pqcVars, linkVars, dispatchVars, deviceVars>>
    /\ UNCHANGED <<PQC_AVAILABLE, lifeVars, poolVars, prodVars, nthreads,
                   outVars, ghostVars>>

\* self.auto_save_keys, never reassigned after __init__
auto_save_keys == TRUE

\* mutant: a failed artifact save is swallowed without an error event
SaveArtifactSilent(win, ok) ==
    IF auto_save_keys
    THEN [win EXCEPT !.artifact = IF ok THEN "saved" ELSE "failed"]
    ELSE win

\* if auto_save: try save_pqc_wrapped_key except error_occurred
SaveArtifact(win, ok) ==
    IF auto_save_keys
    THEN IF ok
         THEN [win EXCEPT !.artifact = "saved"]
         ELSE [win EXCEPT !.artifact = "failed",
                          !.errors = @ \cup {"pqc_save"}]
    ELSE win

\* mutant: the PQC branch does not return and falls back to classical
PersistPqcFallsBack(t) ==
    /\ pc[t] = "persist"
    /\ key_log' = Append(key_log, w[t].key_type)
    /\ w' = [w EXCEPT ![t].lines = Append(@, w[t].key_type),
                      ![t].key_events = @ + 1]
    /\ pc' = [pc EXCEPT ![t] = "classical"]
    /\ UNCHANGED <<auditorVars, pqcVars, linkVars, dispatchVars, deviceVars>>
    /\ UNCHANGED <<PQC_AVAILABLE, lifeVars, poolVars, prodVars, nthreads,
                   keys_generated, ghostVars>>

\* the PQC branch after a successful wrap: artifact save, key-log append,
\* pqc_key_generated.emit, return
PersistPqc(t) ==
    /\ pc[t] = "persist"
    /\ \E save_ok, log_ok \in BOOLEAN :
         LET s == SaveArtifact(w[t], save_ok)
         IN  IF log_ok
             THEN /\ key_log' = Append(key_log, s.key_type)
                  /\ w' = [w EXCEPT ![t] =
                             Return([s EXCEPT !.lines = Append(@, s.key_type),
                                              !.key_events = @ + 1])]
             ELSE /\ w' = [w EXCEPT ![t] =
                             Return([s EXCEPT !.errors = @ \cup {"log"},
                                              !.key_events = @ + 1])]
                  /\ UNCHANGED key_log
    /\ pc' = [pc EXCEPT ![t] = "enter"]
    /\ UNCHANGED <<auditorVars, pqcVars, linkVars, dispatchVars, deviceVars>>
    /\ UNCHANGED <<PQC_AVAILABLE, lifeVars, poolVars, prodVars, nthreads,
                   keys_generated, ghostVars>>

\* CIPHERTANWorker.save_classical_key
SaveClassical(t) ==
    /\ pc[t] = "classical"
    /\ \E log_ok \in BOOLEAN :
         IF log_ok
         THEN /\ key_log' = Append(key_log, "classical")
              /\ w' = [w EXCEPT ![t] =
                         Return([w[t] EXCEPT !.classical_calls = @ + 1,
                                             !.lines = Append(@, "classical"),
                                             !.key_events = @ + 1])]
         ELSE /\ w' = [w EXCEPT ![t] =
                         Return([w[t] EXCEPT !.classical_calls = @ + 1,
                                             !.errors = @ \cup {"log"}])]
              /\ UNCHANGED key_log
    /\ pc' = [pc EXCEPT ![t] = "enter"]
    /\ UNCHANGED <<auditorVars, pqcVars, linkVars, dispatchVars, deviceVars>>
    /\ UNCHANGED <<PQC_AVAILABLE, lifeVars, poolVars, prodVars, nthreads,
                   keys_generated, ghostVars>>

\* ------------------------------------------------- serial link handlers

nonLinkVars == <<PQC_AVAILABLE, poolVars, prodVars, w, outVars, ghostVars,
                 auditorVars, pqcVars, dispatchVars, deviceVars>>

\* CIPHERTANMainWindow.connect_to_device: set the port, call connect_serial
ConnectToDevice ==
    /\ GuiFree
    /\ serial_port' = TRUE
    /\ gui' = [GuiIdle EXCEPT !.pc = "open"]
    /\ UNCHANGED <<serial_connection, nconnects, closed, writing, send_ret,
                   failed, nsends, reader>>
    /\ UNCHANGED <<nonLinkVars, lifeVars, nthreads, pc>>

\* connect_serial, one step at a time on the GUI thread.  It returns into
\* its caller: start_system goes on to create the window-processing
\* thread, connect_to_device returns.
ConnectSerial ==
    LET \* the return, with the GUI record g
        AfterConnect(g) ==
            /\ gui' = [g EXCEPT !.pc = "idle"]
            /\ IF g.from_start
               THEN /\ nthreads' = nthreads + 1
                    /\ pc' = [pc EXCEPT ![nthreads + 1] = "enter"]
               ELSE UNCHANGED <<nthreads, pc>>
        \* except Exception: serial_connection = None,
        \* connection_status(False), error_occurred
        ConnectFailed ==
            /\ serial_connection' = 0
            /\ AfterConnect([gui EXCEPT
                               !.events = @ \o <<"disconnected", "error">>])
    IN  /\ UNCHANGED <<nonLinkVars, lifeVars, serial_port>>
        /\ \/ \* close the old connection if there is one, then
              \* serial.Serial(...): the port opens or the constructor raises
              /\ gui.pc = "open"
              /\ closed' = IF serial_connection # 0
                           THEN closed \cup {serial_connection} ELSE closed
              /\ \/ /\ nconnects < MaxConnects
                    /\ nconnects' = nconnects + 1
                    /\ serial_connection' = nconnects + 1
                    /\ gui' = [gui EXCEPT !.pc = "reset"]
                    /\ UNCHANGED <<nthreads, pc>>
                 \/ /\ ConnectFailed
                    /\ UNCHANGED nconnects
              /\ \/ UNCHANGED reader
                 \/ \* a reader that polls the closed port before the new
                    \* one is assigned: in_waiting raises and it breaks
                    /\ serial_connection # 0
                    /\ reader' = [k \in DOMAIN reader |->
                                     IF reader[k] = "polling"
                                     THEN "exited" ELSE reader[k]]
              /\ UNCHANGED <<writing, send_ret, failed, nsends>>
           \/ \* time.sleep(2.0); reset_input_buffer(); reset_output_buffer()
              /\ gui.pc = "reset"
              /\ \/ /\ gui' = [gui EXCEPT !.pc = "send", !.reset = TRUE]
                    /\ UNCHANGED <<serial_connection, nthreads, pc>>
                 \/ ConnectFailed
              /\ UNCHANGED <<nconnects, closed, writing, send_ret, failed,
                             nsends, reader>>
           \/ \* the next send_serial_command of the handshake
              /\ gui.pc = "send"
              /\ writing["gui"] = NoWrite
              /\ Len(gui.hs) < Len(Handshake)
              /\ SendBegin("gui", Handshake[Len(gui.hs) + 1])
              /\ gui' = [gui EXCEPT
                            !.hs = Append(@, Handshake[Len(gui.hs) + 1])]
              /\ UNCHANGED <<serial_connection, nconnects, closed, failed,
                             reader, nthreads, pc>>
           \/ \* response_thread.start(); connection_status.emit(True)
              /\ gui.pc = "send"
              /\ writing["gui"] = NoWrite
              /\ Len(gui.hs) = Len(Handshake)
              /\ reader' = [reader EXCEPT ![serial_connection] = "polling"]
              /\ AfterConnect([gui EXCEPT !.events = Append(@, "connected")])
              /\ UNCHANGED <<serial_connection, nconnects, closed, writing,
                             send_ret, failed, nsends>>

\* CIPHERTANMainWindow.disconnect_from_device
DisconnectFromDevice ==
    /\ GuiFree
    /\ serial_connection # 0
    /\ closed' = closed \cup {serial_connection}
    /\ serial_connection' = 0
    /\ UNCHANGED <<serial_port, nconnects, gui, writing, send_ret, failed,
                   nsends, reader>>
    /\ UNCHANGED <<nonLinkVars, lifeVars, nthreads, pc>>

\* CIPHERTANMainWindow.send_manual_command (likewise brightness_changed,
\* start_trng_stream, stop_trng_stream): a command sent from the GUI thread
ManualCommand ==
    /\ GuiFree
    /\ serial_connection # 0
    /\ SendBegin("gui", "CMD")
    /\ UNCHANGED <<serial_port, serial_connection, nconnects, closed, gui,
                   failed, reader>>
    /\ UNCHANGED <<nonLinkVars, lifeVars, nthreads, pc>>

\* request_esp_status and _idle_rgb_tick -> update_rgb_chaos, the slots of
\* status_timer and rgb_timer
TimerSend ==
    /\ writing["worker"] = NoWrite
    /\ is_running
    /\ serial_connection # 0
    /\ \E cmd \in {"STAT?", "RGB:"} :
         /\ cmd = "RGB:" => lights_enabled
         /\ SendBegin("worker", cmd)
    /\ UNCHANGED <<serial_port, serial_connection, nconnects, closed, gui,
                   failed, reader>>
    /\ UNCHANGED <<nonLinkVars, lifeVars, nthreads, pc>>

\* write and flush of thread t return or raise: True, or an error event
\* and False; the listener thread goes on to add_keystroke_entropy
SendReturns(t) ==
    /\ writing[t] # NoWrite
    /\ \E outcome \in {"true", "timeout", "error"} :
         /\ send_ret' = [send_ret EXCEPT ![t] = outcome]
         /\ failed' = IF outcome = "true" THEN failed
                       ELSE failed \cup {writing[t].conn}
         /\ serial_connection' =
               IF outcome = "true" THEN serial_connection
               ELSE AfterWriteFailure(serial_connection)
    /\ writing' = [writing EXCEPT ![t] = NoWrite]
    /\ prod' = IF t = "listener" THEN [prod EXCEPT !["key"] = "acquire"]
               ELSE prod
    /\ UNCHANGED <<serial_port, nconnects, closed, gui, nsends, reader>>
    /\ UNCHANGED <<PQC_AVAILABLE, poolVars, nchunks, w, outVars, ghostVars,
                   auditorVars, pqcVars, dispatchVars, deviceVars>>
    /\ UNCHANGED <<lifeVars, nthreads, pc>>

\* monitor_serial_responses: while self.serial_connection and
\* self.is_running; the thread ends when the test fails
ReaderExit(k) ==
    /\ reader[k] = "polling"
    /\ ~(serial_connection # 0 /\ is_running)
    /\ reader' = [reader EXCEPT ![k] = "exited"]
    /\ UNCHANGED <<serial_port, serial_connection, nconnects, closed, gui,
                   writing, send_ret, failed, nsends>>
    /\ UNCHANGED <<nonLinkVars, lifeVars, nthreads, pc>>

LinkNext ==
    \/ StartChaos
    \/ StopSystem
    \/ ConnectToDevice
    \/ ConnectSerial
    \/ DisconnectFromDevice
    \/ ManualCommand
    \/ TimerSend
    \/ ProducerEvent("key", LinkChunks)
    \/ ProducerLock("key")
    \/ ProducerAppend("key")
    \/ \E t \in Writers : SendReturns(t)
    \/ \E k \in 1..MaxConnects : ReaderExit(k)

\* the serial link, its writers and its reader threads
LinkSpec == Init /\ [][LinkNext]_vars

\* handle_serial_response(response) on the reader thread, up to the lock
\* of add_trng_entropy or to its return
HandleSerialResponse(line) ==
    LET \* the line reaches add_trng_entropy's with self.entropy_lock
        AddsTrng ==
            /\ line.head = "TRNG:"
            /\ line.body \notin Markers
            /\ B64Decodes(line.body)
            /\ TrngIncluded(include_esp_trng)
        \* the line makes the outer except emit error_occurred: only
        \* json.loads is outside the inner try, and it raises unless the
        \* body is a JSON value
        ParseError == line.head = "STATUS:" /\ line.body # <<"{", "}">>
    IN  /\ dispatched.done
        /\ prod["trng"] = "idle"
        /\ rx_line' = line
        /\ dispatched' = [done |-> FALSE, before |-> nchunks]
        /\ ParseError => dispatch_errors < MaxErrors
        /\ dispatch_errors' = IF ParseError
                              THEN dispatch_errors + 1 ELSE dispatch_errors
        /\ IF AddsTrng
           THEN /\ nchunks < DispatchChunks
                /\ prod' = [prod EXCEPT !["trng"] = "acquire"]
           ELSE UNCHANGED prod
    /\ UNCHANGED <<include_esp_trng, deviceVars>>
    /\ UNCHANGED <<auditorVars, pqcVars, linkVars>>
    /\ UNCHANGED <<PQC_AVAILABLE, lifeVars, poolVars, nchunks, nthreads, pc,
                   w, outVars, ghostVars>>

\* handle_serial_response returns to monitor_serial_responses
DispatchReturn ==
    /\ ~dispatched.done
    /\ prod["trng"] = "idle"
    /\ dispatched' = [dispatched EXCEPT !.done = TRUE]
    /\ UNCHANGED <<rx_line, include_esp_trng, dispatch_errors, deviceVars>>
    /\ UNCHANGED <<auditorVars, pqcVars, linkVars>>
    /\ UNCHANGED <<PQC_AVAILABLE, lifeVars, poolVars, prodVars, nthreads, pc,
                   w, outVars, ghostVars>>

\* the worker after start_chaos copied the state of the device-TRNG
\* checkbox into include_esp_trng
DispatchInit ==
    /\ InitWorker
    /\ InitAuditor
    /\ audit_arg = NoBuffer
    /\ InitPqc
    /\ InitLink
    /\ include_esp_trng \in BOOLEAN
    /\ pqc_in = NoWrapInput

DispatchNext ==
    \/ \E line \in Lines : HandleSerialResponse(line)
    \/ ProducerLock("trng")
    \/ ProducerAppend("trng")
    \/ DispatchReturn

DispatchSpec == DispatchInit /\ [][DispatchNext]_vars

\* ------------------------------------------------------ device firmware

\* mutant: the range check is left to the & 0xFF of set_color
InRangeMasked(v) == TRUE

\* all(0 <= val <= 255 for val in [r, g, b])
InRange(v) == 0 <= v /\ v <= 255

\* mutant: an error in a handler ends the main loop
AfterHandlerErrorExit(mode) == "exited"

\* except Exception as e: self.log_error(...): the handler returns and
\* main_loop goes on
AfterHandlerError(mode) == mode

\* mutant: the ceiling of the rate is missing
ClampRateNoCeiling(rate) == IF rate < MinRate THEN MinRate ELSE rate

\* rate = max(1, min(50, rate))
ClampRate(rate) ==
    IF rate < MinRate THEN MinRate
    ELSE IF rate > MaxRate THEN MaxRate
    ELSE rate

\* mutant: TRNG:START leaves the timer it replaces armed
AfterDeinitStillArmed(n) == n

\* if self.trng_timer: self.trng_timer.deinit(): the timers still armed
AfterDeinit(n) == 0

\* main_loop after the command, or after a poll that timed out:
\* if self.command_count > 0 and self.command_count % 50 == 0: gc.collect()
AfterMaintenance(count, runs) ==
    IF count > 0 /\ count % MaintenanceEvery = 0 THEN runs + 1 ELSE runs

\* main_loop reads a non-empty line; handle_command counts it and
\* _push_usb_jitter stores the byte at the cursor (line 303); the cursor
\* is advanced by the next statement
JitterWrite(cap) ==
    /\ dev_mode = "main"
    /\ dev_pc = "loop"
    /\ ncommands < cap
    /\ command_count' = command_count + 1
    /\ dev_pc' = "jitter"
    /\ UNCHANGED <<dev_mode, trng_timer, dev_out, error_count, rgb_updates,
                   current_color, dev_brightness, dev_cmd, dev_script,
                   ncommands, nticks, trng_rate_hz, trng_period, armed,
                   gc_runs, usb_j_idx, wifi_idx, torn>>
    /\ UNCHANGED <<auditorVars, pqcVars, linkVars, dispatchVars>>
    /\ UNCHANGED <<PQC_AVAILABLE, lifeVars, poolVars, prodVars, nthreads, pc,
                   w, outVars, ghostVars>>

\* handle_command(cmd): an empty line from its first statement, any other
\* line from the cursor advance of _push_usb_jitter (line 304), up to the
\* end of the iteration of main_loop or, for TRNG:START, up to
\* trng_timer.init
HandleCommand(cmd, hw, cap) ==
    LET \* parts = command.split(":")[1].split(","); int(parts[1]) returns
        RateParses == cmd.parts = <<>> \/ cmd.parts[1].int
        \* rate = int(parts[1]) if len(parts) > 1 and parts[1] else 10;
        \* rate = max(1, min(50, rate))
        Rate == IF cmd.parts = <<>> THEN ClampRate(DefaultRate)
                ELSE ClampRate(cmd.parts[1].val)
        \* trng_timer.init is reached and returns
        Starts ==
            cmd.verb = "TRNG:START" /\ RateParses /\ cmd.fail = "none"
        \* the new cursor and counter
        count == IF cmd.verb = "" THEN command_count + 1 ELSE command_count
        \* \* handle_rgb reaches set_color: three fields, each an integer in
        \* range
        RgbValid ==
            /\ cmd.verb = "RGB:"
            /\ Len(cmd.parts) = 3
            /\ \A i \in 1..Len(cmd.parts) :
                  cmd.parts[i].int /\ InRange(cmd.parts[i].val)
        \* handle_brightness: a float in 0.01..1.0
        BriValid ==
            /\ cmd.verb = "BRI:"
            /\ cmd.parts[1].int
            /\ 1 <= cmd.parts[1].val /\ cmd.parts[1].val <= 100
        \* the handler calls log_error; hw is what set_color returns
        LogsError ==
            CASE cmd.verb = "RGB:" -> ~RgbValid \/ ~hw
              [] cmd.verb = "BRI:" -> ~BriValid
              [] cmd.verb \in PlainVerbs -> cmd.fail = "raise"
              [] cmd.verb = "unknown" -> TRUE
              [] OTHER -> FALSE
        \* the lines the handler prints before it returns or, for
        \* TRNG:START, before it arms the timer
        Reply ==
            CASE LogsError -> <<"[ERROR]">>
              [] cmd.verb = "TRNG:START" /\ ~Starts -> <<"TRNG:ERR">>
              [] cmd.verb = "TRNG:STOP" ->
                    \* deinit of an armed timer raises, or TRNG:OFF
                    IF cmd.fail = "raise" /\ trng_timer
                    THEN <<"TRNG:ERR">> ELSE <<"TRNG:OFF">>
              [] cmd.verb \in PlainVerbs \cup {"BRI:", "RESET"} ->
                    <<cmd.verb>>
              [] OTHER -> <<>>
    IN  /\ dev_mode = "main"
        /\ IF cmd.verb = "" THEN dev_pc = "loop"
           ELSE dev_pc \in {"jitter", "skipped"}
        /\ ncommands < cap
        /\ ncommands' = ncommands + 1
        /\ dev_cmd' = cmd
        /\ command_count' = count
        /\ usb_j_idx' = IF dev_pc = "jitter"
                        THEN (usb_j_idx + 1) % RingSize ELSE usb_j_idx
        /\ gc_runs' = IF Starts \/ cmd.verb = "RESET" THEN gc_runs
                      ELSE AfterMaintenance(count, gc_runs)
        /\ trng_rate_hz' = IF cmd.verb = "TRNG:START" /\ RateParses
                           THEN Rate ELSE trng_rate_hz
        /\ trng_period' = IF Starts THEN 1000 \div Rate ELSE trng_period
        /\ armed' =
              CASE Starts -> AfterDeinit(armed) + 1
                [] cmd.verb = "TRNG:START" /\ RateParses ->
                      AfterDeinit(armed)
                [] cmd.verb = "TRNG:STOP" /\ cmd.fail = "none" -> 0
                [] cmd.verb = "RESET" -> 0
                [] OTHER -> armed
        /\ dev_script' =
              CASE dev_script = "none" /\ Starts -> "start"
                [] /\ dev_script = "start"
                   /\ cmd.verb = "TRNG:STOP"
                   /\ cmd.fail = "none" -> "start_stop"
                [] OTHER -> "other"
        /\ error_count' = IF LogsError
                          THEN error_count + 1 ELSE error_count
        /\ dev_out' = dev_out \o Reply
        /\ current_color' =
              CASE RgbValid ->
                      \* set_color: int((v & 0xFF) * self.brightness)
                      [i \in 1..3 |->
                          ((cmd.parts[i].val % 256) * dev_brightness)
                              \div 100]
                [] cmd.verb = "RESET" -> <<0, 0, 0>>
                [] OTHER -> current_color
        /\ rgb_updates' = IF RgbValid /\ hw
                          THEN rgb_updates + 1 ELSE rgb_updates
        /\ dev_brightness' = IF BriValid
                             THEN cmd.parts[1].val ELSE dev_brightness
        /\ trng_timer' =
              CASE Starts -> TRUE
                [] cmd.verb = "TRNG:START" /\ RateParses -> FALSE
                [] cmd.verb = "TRNG:STOP" /\ cmd.fail = "none" -> FALSE
                [] cmd.verb = "RESET" -> FALSE
                [] OTHER -> trng_timer
        /\ dev_pc' = IF Starts THEN "trng_ack" ELSE "loop"
        /\ dev_mode' =
              CASE cmd.verb = "RESET" -> "reset"
                [] LogsError -> AfterHandlerError(dev_mode)
                [] OTHER -> dev_mode
        /\ UNCHANGED <<nticks, wifi_idx, torn>>
        /\ UNCHANGED <<auditorVars, pqcVars, linkVars, dispatchVars>>
        /\ UNCHANGED <<PQC_AVAILABLE, lifeVars, poolVars, prodVars,
                       nthreads, pc, w, outVars, ghostVars>>

\* TRNG:START after trng_timer.init returned: print("TRNG:OK"), and the
\* end of the iteration of main_loop
StartAck ==
    /\ dev_mode = "main"
    /\ dev_pc = "trng_ack"
    /\ dev_out' = Append(dev_out, "TRNG:OK")
    /\ dev_pc' = "loop"
    /\ gc_runs' = AfterMaintenance(command_count, gc_runs)
    /\ UNCHANGED <<dev_mode, trng_timer, error_count, rgb_updates,
                   current_color, dev_brightness, dev_cmd, dev_script,
                   ncommands, nticks, trng_rate_hz, trng_period, armed,
                   command_count, usb_j_idx, wifi_idx, torn>>
    /\ UNCHANGED <<auditorVars, pqcVars, linkVars, dispatchVars>>
    /\ UNCHANGED <<PQC_AVAILABLE, lifeVars, poolVars, prodVars, nthreads, pc,
                   w, outVars, ghostVars>>

\* _trng_tick, run by the periodic timer between any two steps of the
\* main thread: generate_trng(64) reads both ring buffers from their
\* cursors (lines 343-346), then print("TRNG:" + b64)
TrngTick ==
    /\ trng_timer
    /\ dev_mode \in {"main", "exited"}
    /\ nticks < MaxTicks
    /\ nticks' = nticks + 1
    /\ dev_out' = Append(dev_out, "TRNG:frame")
    /\ torn' = (torn \/ dev_pc = "jitter")
    /\ UNCHANGED <<dev_mode, dev_pc, trng_timer, error_count, rgb_updates,
                   current_color, dev_brightness, dev_cmd, dev_script,
                   ncommands, trng_rate_hz, trng_period, armed,
                   command_count, gc_runs, usb_j_idx, wifi_idx>>
    /\ UNCHANGED <<auditorVars, pqcVars, linkVars, dispatchVars>>
    /\ UNCHANGED <<PQC_AVAILABLE, lifeVars, poolVars, prodVars, nthreads, pc,
                   w, outVars, ghostVars>>

\* main_loop: except KeyboardInterrupt: print, break; the handlers catch
\* Exception only, so an interrupt inside a handler ends the loop too.
\* Inside _push_usb_jitter the bare except (305-306) swallows it: the
\* cursor advance is skipped and the handler goes on.
KeyboardInterrupt ==
    /\ dev_mode = "main"
    /\ dev_pc # "skipped"
    /\ IF dev_pc = "jitter"
       THEN /\ dev_pc' = "skipped"
            /\ UNCHANGED <<dev_mode, dev_out>>
       ELSE /\ dev_mode' = "exited"
            /\ dev_pc' = "loop"
            /\ dev_out' = Append(dev_out, "[STATUS]")
    /\ UNCHANGED <<trng_timer, error_count, rgb_updates, current_color,
                   dev_brightness, dev_cmd, dev_script, ncommands, nticks,
                   trng_rate_hz, trng_period, armed, command_count, gc_runs,
                   usb_j_idx, wifi_idx, torn>>
    /\ UNCHANGED <<auditorVars, pqcVars, linkVars, dispatchVars>>
    /\ UNCHANGED <<PQC_AVAILABLE, lifeVars, poolVars, prodVars, nthreads, pc,
                   w, outVars, ghostVars>>

\* main(): one line read and handled by the emergency loop
EmergencyCommand(cmd) ==
    /\ dev_mode = "emergency"
    /\ ncommands < MaxCommands
    /\ ncommands' = ncommands + 1
    /\ dev_cmd' = cmd
    /\ dev_out' = dev_out \o
          CASE cmd.verb = "VER?" -> <<"EMERGENCY_MODE">>
            [] cmd.verb = "RGB:" /\ Len(cmd.parts) = 3 -> <<"[EMERGENCY]">>
            [] OTHER -> <<>>
    /\ dev_mode' = IF cmd.verb = "RESET" THEN "reset" ELSE dev_mode
    /\ UNCHANGED <<dev_pc, trng_timer, error_count, rgb_updates,
                   current_color, dev_brightness, dev_script, nticks,
                   trng_rate_hz, trng_period, armed, command_count, gc_runs,
                   usb_j_idx, wifi_idx, torn>>
    /\ UNCHANGED <<auditorVars, pqcVars, linkVars, dispatchVars>>
    /\ UNCHANGED <<PQC_AVAILABLE, lifeVars, poolVars, prodVars, nthreads, pc,
                   w, outVars, ghostVars>>

\* main() at power-up or after machine.reset(): ciphertanSystem() returns
\* and main_loop starts, or it raises into the emergency loop
Boot ==
    /\ dev_mode \in {"boot", "reset"}
    /\ dev_mode' \in {"main", "emergency"}
    /\ dev_pc' = "loop"
    /\ trng_timer' = FALSE
    /\ error_count' = 0
    /\ rgb_updates' = 0
    /\ current_color' = <<0, 0, 0>>
    /\ dev_brightness' = 100
    /\ dev_script' = IF dev_mode = "boot" THEN "none" ELSE "other"
    /\ trng_rate_hz' = DefaultRate
    /\ trng_period' = 0
    /\ armed' = 0
    /\ command_count' = 0
    /\ gc_runs' = 0
    /\ usb_j_idx' = 0
    /\ wifi_idx' = 0
    /\ UNCHANGED <<dev_out, dev_cmd, ncommands, nticks, torn>>
    /\ UNCHANGED <<auditorVars, pqcVars, linkVars, dispatchVars>>
    /\ UNCHANGED <<PQC_AVAILABLE, lifeVars, poolVars, prodVars, nthreads, pc,
                   w, outVars, ghostVars>>

\* main_loop: poll.poll(100) times out, then the periodic maintenance
IdleIteration ==
    /\ dev_mode = "main"
    /\ dev_pc = "loop"
    /\ gc_runs < MaxGcRuns
    /\ gc_runs' = AfterMaintenance(command_count, gc_runs)
    /\ UNCHANGED <<dev_mode, dev_pc, trng_timer, dev_out, error_count,
                   rgb_updates, current_color, dev_brightness, dev_cmd,
                   dev_script, ncommands, nticks, trng_rate_hz, trng_period,
                   armed, command_count, usb_j_idx, wifi_idx, torn>>
    /\ UNCHANGED <<auditorVars, pqcVars, linkVars, dispatchVars>>
    /\ UNCHANGED <<PQC_AVAILABLE, lifeVars, poolVars, prodVars, nthreads, pc,
                   w, outVars, ghostVars>>

DeviceNext ==
    \/ JitterWrite(MaxCommands)
    \/ \E cmd \in Commands, hw \in BOOLEAN :
          HandleCommand(cmd, hw, MaxCommands)
    \/ StartAck
    \/ TrngTick
    \/ KeyboardInterrupt
    \/ \E cmd \in Commands : EmergencyCommand(cmd)
    \/ Boot

DeviceSpec == Init /\ [][DeviceNext]_vars

\* the main loop over many lines: empty lines and one RGB: command
LoopNext ==
    \/ Boot
    \/ JitterWrite(MaxLoopCommands)
    \/ \E cmd \in {c \in Commands :
                      \/ c.verb = ""
                      \/ /\ c.verb = "RGB:"
                         /\ c.parts = [i \in 1..3 |->
                                          [int |-> TRUE, val |-> 0]]} :
          HandleCommand(cmd, TRUE, MaxLoopCommands)
    \/ IdleIteration

LoopSpec == Init /\ [][LoopNext]_vars

NextWith(cap) ==
    \/ StartChaos
    \/ StopSystem
    \/ \E p \in Producers : ProducerEvent(p, cap)
    \/ \E p \in Producers : ProducerLock(p)
    \/ \E p \in Producers : ProducerAppend(p)
    \/ \E t \in Threads : EnterWait(t)
    \/ \E t \in Threads : WaitTimeout(t)
    \/ \E t \in Threads : WaitSignaled(t)
    \/ \E t \in Threads : CheckRunning(t)
    \/ \E t \in Threads : WindowLock(t)
    \/ \E t \in Threads : DrainRead(t)
    \/ \E t \in Threads : DrainClear(t)
    \/ \E t \in Threads : AuditStage(t)
    \/ \E t \in Threads : Forge(t)
    \/ \E t \in Threads : WrapStage(t)
    \/ \E t \in Threads : PersistPqc(t)
    \/ \E t \in Threads : SaveClassical(t)

Next == NextWith(MaxChunks)

\* the whole system, with enough arrivals to overflow the pool
Spec == Init /\ [][Next]_vars

WindowNext == NextWith(WindowChunks)

\* the same system with fewer arrivals, for the properties of one window
WindowSpec == Init /\ [][WindowNext]_vars

\* ------------------------------------- the auditor as a pure function

\* buffer lengths whose bit count is a power of two
\* an all-zero buffer of n bytes: no one bit, no bit change, one histogram
\* cell, chi_square = 255 * n, every block proportion 0 (variance 0.25),
\* one run of 8 * n bits; zlib's output length is left open
AllZeroBuffers ==
    {[n |-> n, ones |-> 0, runs |-> 0, entropy_e4 |-> 0,
      chi_square |-> 255 * n, zlib_ok |-> z[1], compressed |-> z[2],
      block_var_e6 |-> 250000, max_run |-> 8 * n] :
        n \in {1024, 2048, 4096},
        z \in {<<TRUE, 1>>, <<TRUE, 17>>, <<TRUE, 4107>>, <<FALSE, 0>>}}

\* a 1024-byte buffer with 2124 one bits, 2961 bit changes, entropy
\* 5.99963 bits per byte, chi-square 4627.5, 870 bytes compressed, block
\* variance 0.059271 and longest run 28
Sample1024 ==
    [n |-> 1024, ones |-> 2124, runs |-> 2961, entropy_e4 |-> 59996,
     chi_square |-> 4627, zlib_ok |-> TRUE, compressed |-> 870,
     block_var_e6 |-> 59271, max_run |-> 28]

\* buffers over a grid of what the sub-tests count: a quarter, a half or
\* all of the bits set; no, some or nearly all bit changes; compressed to
\* one byte, to n bytes or to n + 11 bytes, or zlib failing
GridBuffers ==
    {[n |-> n, ones |-> 2 * n * o, runs |-> n * r, entropy_e4 |-> e,
      chi_square |-> c, zlib_ok |-> z[1], compressed |-> z[2] * n + z[3],
      block_var_e6 |-> v,
      max_run |-> IF m = 0 THEN 1
                  ELSE IF m = 1 THEN Log2(8 * n) + 3 ELSE 8 * n] :
        n \in {1, 8, 16, 32, 1024},
        o \in {0, 1, 2, 4},
        r \in {0, 4, 7},
        e \in {0, 59996, 60000, 80000},
        c \in {100, 250, 400},
        z \in {<<TRUE, 0, 1>>, <<TRUE, 1, 0>>, <<TRUE, 1, 11>>,
               <<FALSE, 0, 0>>},
        v \in {0, 10000, 250000},
        m \in {0, 1, 2}}

AuditInit ==
    /\ InitWorker
    /\ InitAuditor
    /\ audit_arg \in {NoBuffer, Sample1024} \cup AllZeroBuffers
                        \cup GridBuffers
    /\ InitPqc
    /\ InitLink
    /\ include_esp_trng = TRUE
    /\ pqc_in = NoWrapInput

\* EnhancedEntropyAuditor.comprehensive_audit(raw_bytes)
ComprehensiveAudit ==
    /\ ~audit_called
    /\ audit_called' = TRUE
    /\ audit_ret' = ComprehensiveAuditResult(audit_arg)
    /\ test_history' =
          IF ComprehensiveAuditResult(audit_arg).appended
          THEN test_history + 1 ELSE test_history
    /\ UNCHANGED <<PQC_AVAILABLE, audit_arg, lifeVars, poolVars, prodVars,
                   nthreads, pc, w, outVars, ghostVars, pqcVars,
                   linkVars, dispatchVars, deviceVars>>

AuditNext == ComprehensiveAudit

\* comprehensive_audit applied to each buffer of AuditInit
AuditSpec == AuditInit /\ [][AuditNext]_vars

\* --------------------------------------------------- PQCManager calls

PqcInit ==
    /\ InitWorker
    /\ InitAuditor
    /\ audit_arg = NoBuffer
    /\ InitPqc
    /\ InitLink
    /\ include_esp_trng = TRUE
    /\ pqc_in \in [classical_key : ByteStrings(MaxKeyLen),
                    shared_secret : ByteStrings(MaxKeyLen),
                    bindings_ok : BOOLEAN,
                    disk : {"ok", "key_file_fails", "secret_file_fails"}]

workerVars == <<PQC_AVAILABLE, lifeVars, poolVars, prodVars, nthreads, pc, w,
                outVars, ghostVars>>

\* PQCManager.wrap_key_with_kyber(classical_key)
WrapKeyWithKyber ==
    /\ wrapped_data = NoData
    /\ ~wrap_raised
    /\ IF PQC_AVAILABLE /\ pqc_in.bindings_ok
       THEN /\ wrapped_data' =
                  KyberData(pqc_in.classical_key, pqc_in.shared_secret)
            /\ UNCHANGED wrap_raised
       ELSE /\ wrap_raised' = TRUE
            /\ UNCHANGED wrapped_data
    /\ UNCHANGED <<workerVars, auditorVars, linkVars, dispatchVars,
                   deviceVars, pqc_in, key_file,
                   secret_file, save_ret>>

\* PQCManager.wrap_key_with_falcon(classical_key)
WrapKeyWithFalcon ==
    /\ wrapped_data = NoData
    /\ ~wrap_raised
    /\ IF PQC_AVAILABLE /\ pqc_in.bindings_ok
       THEN /\ wrapped_data' = FalconData(pqc_in.classical_key)
            /\ UNCHANGED wrap_raised
       ELSE /\ wrap_raised' = TRUE
            /\ UNCHANGED wrapped_data
    /\ UNCHANGED <<workerVars, auditorVars, linkVars, dispatchVars,
                   deviceVars, pqc_in, key_file,
                   secret_file, save_ret>>

\* PQCManager.save_pqc_wrapped_key(wrapped_data, key_type): json.dump to
\* the key file, then the secret key to the secret file; an open or a write
\* that fails raises out of the method
SavePqcWrappedKey ==
    /\ wrapped_data # NoData
    /\ save_ret = "none"
    /\ key_file' =
          IF pqc_in.disk = "key_file_fails" THEN key_file
          ELSE [written |-> TRUE, json |-> SaveData(wrapped_data)]
    /\ secret_file' =
          IF pqc_in.disk = "ok"
          THEN [written |-> TRUE, bytes |-> wrapped_data.secret_key]
          ELSE secret_file
    /\ save_ret' = IF pqc_in.disk = "ok" THEN "ok" ELSE "raised"
    /\ UNCHANGED <<workerVars, auditorVars, linkVars, dispatchVars,
                   deviceVars, pqc_in, wrapped_data,
                   wrap_raised>>

PqcNext == WrapKeyWithKyber \/ WrapKeyWithFalcon \/ SavePqcWrappedKey

\* the PQCManager methods applied to each input of PqcInit
PqcSpec == PqcInit /\ [][PqcNext]_vars

\* a step of window-processing thread t
ThreadStep(t) ==
    \/ EnterWait(t) \/ WaitTimeout(t) \/ WaitSignaled(t) \/ CheckRunning(t)
    \/ WindowLock(t) \/ DrainRead(t) \/ DrainClear(t) \/ AuditStage(t)
    \/ Forge(t) \/ WrapStage(t) \/ PersistPqc(t) \/ SaveClassical(t)

\* Threads are scheduled and a thread that holds the lock releases it
LiveSpec ==
    /\ Init
    /\ [][WindowNext]_vars
    /\ \A t \in Threads : WF_vars(ThreadStep(t))
    /\ \A p \in Producers : WF_vars(ProducerLock(p) \/ ProducerAppend(p))

\* ================================================================ claims

\* positions inside process_entropy_window
InWindow ==
    {"lock", "drain", "clear", "audit", "forge", "wrap", "persist",
     "classical"}


\* the window of thread t has returned and its record is still standing
Finished(t) == pc[t] = "enter" /\ w[t].drained

\* the decision of the window as its record shows it
RecEligible(r) == r.enabled /\ PQC_AVAILABLE /\ r.pqc_ready

\* stop_system has returned and start_system has not run since
Stopped == ~is_running /\ stop_event


\* C1: under every interleaving of pushes and drains, a chunk whose push
\* completed and that the deque did not evict is either still in the pool or
\* was returned by exactly one drain, never lost and never returned twice;
\* what a drain read is exactly what it clears, so one drain after N pushes
\* returns those N chunks and leaves the pool empty.
C1_NoLossNoDup ==
    /\ \A c \in 1..nchunks :
         c \notin evicted =>
             Cardinality({i \in DOMAIN entropy_chunks :
                             entropy_chunks[i] = c}) + returned[c] = 1
    /\ \A t \in Threads :
         /\ pc[t] = "clear" => w[t].pool = entropy_chunks
         /\ pc[t] = "audit" =>
              \A i \in DOMAIN w[t].pool : returned[w[t].pool[i]] = 1

C1_Witness ==
    \E t \in Threads :
        /\ pc[t] = "audit"
        /\ Len(w[t].pool) = 2
        /\ entropy_chunks = <<>>
        /\ \E p \in Producers : prod[p] = "acquire"

\* C2: the pool never holds more than PoolMaxLen chunks (4096 in the source);
\* a push onto a full pool keeps the new chunk as the newest, evicts exactly
\* the oldest one and keeps the others in their arrival order.
C2_BoundedEvictOldest ==
    /\ [](Len(entropy_chunks) <= PoolMaxLen)
    /\ [][\A p \in Producers :
            (prod[p] = "held" /\ prod'[p] = "idle") =>
              LET n == Len(entropy_chunks)
                  m == Len(entropy_chunks')
              IN  /\ m >= 1
                  /\ entropy_chunks'[m] = nchunks'
                  /\ IF n = PoolMaxLen
                     THEN /\ m = PoolMaxLen
                          /\ evicted' = evicted \cup {Head(entropy_chunks)}
                          /\ SubSeq(entropy_chunks', 1, m - 1)
                               = Tail(entropy_chunks)
                     ELSE /\ m = n + 1
                          /\ evicted' = evicted
                          /\ SubSeq(entropy_chunks', 1, n) = entropy_chunks
         ]_vars

C2_Witness ==
    /\ Len(entropy_chunks) = PoolMaxLen
    /\ evicted = {1}
    /\ entropy_chunks[Len(entropy_chunks)] = nchunks

\* C3: a tick that finds the pool empty returns at once: no key is forged,
\* no audit event and no key event is emitted, nothing is written to the key
\* log and keys_generated is unchanged.
C3_EmptyTick ==
    /\ [](\A t \in Threads :
            /\ w[t].empty => w[t] = [BlankWin EXCEPT !.empty = TRUE]
            /\ pc[t] \in {"audit", "forge", "wrap", "persist", "classical"}
                  => w[t].pool # <<>>)
    /\ [][\A t \in Threads :
            (pc[t] = "drain" /\ pc'[t] # "drain" /\ entropy_chunks = <<>>) =>
              /\ pc'[t] = "enter"
              /\ w'[t].empty
              /\ keys_generated' = keys_generated
              /\ key_log' = key_log
         ]_vars

C3_Witness ==
    \E t \in Threads :
        /\ w[t].empty
        /\ pc[t] = "enter"
        /\ keys_generated >= 1
        /\ key_log # <<>>

\* C4: a wrap strategy is invoked in a window only if PQC is enabled, the
\* binding is available and the window's audit is pqc_ready; when one of the
\* three is false no strategy is invoked and the window goes straight to
\* save_classical_key.
C4_WrapOnlyIfEligible ==
    \A t \in Threads :
        /\ (w[t].kyber # "none" \/ w[t].falcon # "none") => RecEligible(w[t])
        /\ pc[t] \in {"wrap", "persist"} => RecEligible(w[t])
        /\ (w[t].forged = 1 /\ ~RecEligible(w[t])) =>
              /\ w[t].kyber = "none" /\ w[t].falcon = "none"
              /\ w[t].key_type = "classical"
              /\ \/ pc[t] = "classical" /\ w[t].classical_calls = 0
                 \/ Finished(t) /\ w[t].classical_calls = 1

C4_Witness ==
    \E t \in Threads :
        /\ Finished(t)
        /\ w[t].enabled /\ PQC_AVAILABLE /\ ~w[t].pqc_ready
        /\ w[t].classical_calls = 1
        /\ w[t].lines = <<"classical">>

\* C5: in an eligible window Kyber is attempted exactly when it is enabled
\* and before Falcon; Falcon is attempted exactly when it is enabled and
\* Kyber was disabled or failed; Falcon never follows a Kyber success and at
\* most one strategy succeeds.
C5_StrategyOrder ==
    \A t \in Threads :
        /\ ~(w[t].kyber = "ok" /\ w[t].falcon # "none")
        /\ (pc[t] \in {"persist", "classical"} /\ RecEligible(w[t])
            /\ w[t].forged = 1) =>
              /\ w[t].kyber # "none" <=> w[t].kyber_enabled
              /\ w[t].falcon # "none" <=>
                    (w[t].falcon_enabled /\ w[t].kyber # "ok")
        /\ pc[t] = "persist" =>
              /\ w[t].kyber = "ok" \/ w[t].falcon = "ok"
              /\ w[t].key_type = IF w[t].kyber = "ok"
                                 THEN "kyber512_wrapped"
                                 ELSE "falcon512_signed"

C5_Witness ==
    \E t \in Threads :
        /\ pc[t] = "persist"
        /\ w[t].kyber = "failed"
        /\ w[t].falcon = "ok"

\* C6: an eligible window in which no strategy succeeds (each enabled one
\* failed, or none is enabled) reports an error event and hands its key to
\* save_classical_key, which writes a classical line unless the log write
\* itself fails; the window is not dropped.
C6_TotalFailureFallsBack ==
    \A t \in Threads :
        (w[t].forged = 1 /\ RecEligible(w[t])
         /\ pc[t] \in {"classical", "enter"}
         /\ w[t].kyber # "ok" /\ w[t].falcon # "ok") =>
            /\ "pqc_failed" \in w[t].errors
            /\ w[t].kyber_enabled => "kyber" \in w[t].errors
            /\ w[t].falcon_enabled => "falcon" \in w[t].errors
            /\ pc[t] = "enter" =>
                 /\ w[t].classical_calls = 1
                 /\ \/ w[t].lines = <<"classical">>
                    \/ w[t].lines = <<>> /\ "log" \in w[t].errors

C6_Witness ==
    \E t \in Threads :
        /\ Finished(t)
        /\ RecEligible(w[t])
        /\ w[t].kyber = "failed" /\ w[t].falcon = "failed"
        /\ w[t].lines = <<"classical">>

\* the variant a finished window must have logged
Variant(r) ==
    IF r.kyber = "ok" THEN "kyber512_wrapped"
    ELSE IF r.falcon = "ok" THEN "falcon512_signed"
    ELSE "classical"

\* C7: a window writes at most one line to the key log, and exactly one, of
\* the variant its wrap outcome selects, when it runs to its end and the log
\* write succeeds; no window has two lines in the log.
C7_OneRecordPerWindow ==
    /\ \A t \in Threads :
         /\ Len(w[t].lines) <= 1
         /\ (Finished(t) /\ w[t].forged = 1 /\ "log" \notin w[t].errors) =>
               w[t].lines = <<Variant(w[t])>>
    /\ Len(key_log) <= keys_generated
    /\ \A i \in DOMAIN key_log :
         key_log[i] \in {"classical", "kyber512_wrapped", "falcon512_signed"}

C7_Witness ==
    /\ key_log = <<"kyber512_wrapped", "falcon512_signed">>
    /\ keys_generated = 2
    /\ \E t \in Threads : Finished(t) /\ w[t].lines = <<"falcon512_signed">>

\* C8: a stage that raises is reported as an error event and leaves the
\* thread inside the loop; a thread leaves the loop only through a wait that
\* the stop signal ended, never because a window failed; and after a window
\* that reported an error the thread begins the next window unless the
\* system is stopped.
C8_LoopSurvivesFailure ==
    /\ [][\A t \in Threads :
            /\ (w[t].errors # w'[t].errors /\ w'[t].errors # {}) =>
                  /\ w[t].errors \subseteq w'[t].errors
                  /\ pc'[t] \in {"enter", "forge", "persist", "classical"}
            /\ (pc[t] # "exited" /\ pc'[t] = "exited") =>
                  \/ pc[t] = "signaled"
                  \/ pc[t] = "enter" /\ stop_event
         ]_vars
    /\ \A t \in Threads :
         (pc[t] = "enter" /\ w[t].errors # {} /\ is_running)
             ~> (pc[t] = "lock" \/ ~is_running)

C8_Witness ==
    \E t \in Threads :
        /\ pc[t] = "enter"
        /\ "loop" \in w[t].errors
        /\ is_running
        /\ keys_generated >= 1

\* C9: when stop_system has returned, and until the next start, no thread is
\* inside process_entropy_window.
C9_StopAwaitsWindow ==
    Stopped => \A t \in Threads : pc[t] \notin InWindow

\* C10: once stop_system has been called, every window-processing thread
\* terminates unless start_system runs again; no thread stays blocked in the
\* wait while the stop signal is set, and no thread that was outside the
\* window routine enters it.
C10_StopTerminates ==
    /\ \A t \in Threads :
         (Stopped /\ pc[t] \notin {"none", "exited"})
             ~> (pc[t] = "exited" \/ is_running)
    /\ [](Stopped => \A t \in Threads : pc[t] # "wait")
    /\ [][\A t \in Threads :
            (Stopped /\ pc[t] \in {"enter", "wait", "signaled", "check"}) =>
                pc'[t] \notin InWindow
         ]_vars

C10_Witness ==
    /\ Stopped
    /\ nthreads = MaxThreads
    /\ \A t \in Threads : pc[t] = "exited"
    /\ keys_generated >= 1


\* C11: whatever the sequence of start and stop calls, at most one
\* window-processing thread is alive.
C11_SingleProcessor ==
    Cardinality({t \in Threads : pc[t] \notin {"none", "exited"}}) <= 1


\* the chunks of entropy_pool: what the drain took from the deque
DrainedChunks(pool) == SelectSeq(pool, LAMBDA x : x \in Chunks)


\* C12: the audit of a window is computed over the drained chunks only, so
\* its input does not contain the host-OS random bytes and is the same with
\* include_host_rng on or off.
C12_AuditExcludesHostRng ==
    \A t \in Threads :
        pc[t] \in {"forge", "wrap", "persist", "classical"} =>
            w[t].audit_input = DrainedChunks(w[t].pool)

\* positions after key_data has been computed
AfterForge == {"wrap", "persist", "classical"}

\* C13: the key of a window is the hash of the drained chunks in arrival
\* order, then the host-OS random block exactly when include_host_rng is on,
\* then the domain separator; it is computed once in a window; and the host
\* RNG step leaves the drained chunks as they were.
C13_KeyInput ==
    /\ [](\A t \in Threads :
            /\ w[t].forged <= 1
            /\ pc[t] \in AfterForge =>
                 LET d == DrainedChunks(w[t].pool)
                 IN  /\ w[t].forged = 1
                     /\ d # <<>>
                     /\ \A i, j \in DOMAIN d : i < j => d[i] < d[j]
                     /\ w[t].key_input =
                          d \o (IF w[t].include_host_rng THEN <<HOST>>
                                ELSE <<>>) \o <<CIPHER_CHAN_V2>>)
    /\ [][\A t \in Threads :
            (pc[t] = "audit" /\ pc'[t] = "forge") =>
               /\ w[t].pool = DrainedChunks(w[t].pool)
               /\ DrainedChunks(w'[t].pool) = w[t].pool
         ]_vars

C13_Witness ==
    \E t \in Threads :
        /\ pc[t] \in AfterForge
        /\ w[t].key_input = <<1, 2, HOST, CIPHER_CHAN_V2>>

\* C14: an audit record is flagged pqc_ready exactly when the score it
\* carries is at least 65.0, the entropy per byte it carries is at least 6.0
\* and its sample_size is at least 32.
C14_ReadyMatchesRecord ==
    (audit_called /\ ~audit_ret.raised /\ audit_ret.appended)
        => (audit_ret.pqc_ready
                <=> (/\ audit_ret.score >= PqcScoreMin
                     /\ audit_ret.entropy_bpb >= PqcBpbMin
                     /\ audit_ret.sample_size >= MinSampleBytes))

\* C15: comprehensive_audit on a zero-length buffer returns score 0.0 and
\* pqc_ready false, without raising, without calling any sub-test and
\* without appending to test_history.
C15_ZeroLength ==
    (audit_called /\ audit_arg.n = 0)
        => /\ ~audit_ret.raised
           /\ audit_ret.score = 0
           /\ ~audit_ret.pqc_ready
           /\ audit_ret.subtests = 0
           /\ ~audit_ret.appended
           /\ test_history = 0

C15_Witness == audit_called /\ audit_arg.n = 0 /\ ~audit_ret.raised

\* C16: on an all-zero buffer of 1024 bytes or more the audit reports
\* frequency_test false with a ratio of ones of 0, chi_square_test false, a
\* score below 65 and pqc_ready false.
C16_AllZero ==
    (audit_called /\ audit_arg \in AllZeroBuffers)
        => /\ ~audit_ret.raised
           /\ ~audit_ret.tests.frequency_test
           /\ audit_ret.tests.frequency_ratio = 0
           /\ ~audit_ret.tests.chi_square_test
           /\ audit_ret.score < PqcScoreMin
           /\ ~audit_ret.pqc_ready

C16_Witness ==
    /\ audit_called
    /\ audit_arg \in AllZeroBuffers
    /\ audit_arg.n > 1024
    /\ ~audit_ret.tests.chi_square_test
    /\ audit_ret.score > 0

SubScores ==
    {"frequency_score", "runs_score", "entropy_score", "chi_square_score",
     "compression_score", "block_frequency_score", "longest_run_score"}

Weights ==
    [frequency_score |-> W_frequency, runs_score |-> W_runs,
     entropy_score |-> W_entropy, chi_square_score |-> W_chi_square,
     compression_score |-> W_compression,
     block_frequency_score |-> W_block_frequency,
     longest_run_score |-> W_longest_run]

RECURSIVE SumOver(_, _)
SumOver(f, S) ==
    IF S = {} THEN 0
    ELSE LET k == CHOOSE x \in S : TRUE
         IN  f[k] + SumOver(f, S \ {k})

\* C17: for every non-empty buffer each sub-score present lies in [0, 100],
\* the score is their weighted sum divided by the sum of the weights of the
\* sub-scores present, and it lies in [0, 100].
C17_Composite ==
    (audit_called /\ audit_arg.n > 0)
        => LET tests == audit_ret.tests
               present == tests.present
               weighted == [k \in present |-> tests[k] * Weights[k]]
               weight == [k \in present |-> Weights[k]]
           IN  /\ ~audit_ret.raised
               /\ present \subseteq SubScores
               /\ \A k \in present : tests[k] \in 0..1000
               /\ SumOver(weight, present) > 0
               /\ audit_ret.score
                      = RoundDiv(SumOver(weighted, present),
                                 SumOver(weight, present))
               /\ audit_ret.score \in 0..1000

C17_Witness ==
    /\ audit_called
    /\ audit_arg.n > 0
    /\ "longest_run_score" \notin audit_ret.tests.present
    /\ audit_ret.tests.runs_score = 0
    /\ audit_ret.score > 0

\* C18: the wrapped key of wrap_key_with_kyber is as long as the classical
\* key; within the shorter of the classical key and the shared secret each
\* wrapped byte XOR the shared-secret byte is the classical byte; past the
\* shared secret the wrapped bytes are the classical bytes.
C18_KemWrapRoundTrip ==
    wrapped_data.type = "kyber512_wrapped"
        => LET k == pqc_in.classical_key
               s == wrapped_data.shared_secret
               wk == wrapped_data.wrapped_key
           IN  /\ s = pqc_in.shared_secret
               /\ Len(wk) = Len(k)
               /\ \A i \in 1..Len(k) :
                     IF i <= Len(s)
                     THEN /\ wk[i] \in Bytes
                          /\ \A j \in 0..(ByteBits - 1) :
                                (Bit(wk[i], j) # Bit(s[i], j))
                                    <=> (Bit(k[i], j) = 1)
                     ELSE wk[i] = k[i]

C18_Witness ==
    /\ wrapped_data.type = "kyber512_wrapped"
    /\ Len(pqc_in.classical_key) = 2
    /\ Len(pqc_in.shared_secret) = 1
    /\ pqc_in.shared_secret[1] = 3
    /\ wrapped_data.wrapped_key = <<1, 2>>

JsonValues(json) ==
    {json[f] : f \in json.fields \ {"type", "created"}}

\* C19: save_pqc_wrapped_key writes the secret key to the secret file only:
\* the JSON object of the key file has no secret_key and no shared_secret
\* entry and none of its values is the secret key, for a Kyber-wrapped and
\* for a Falcon-signed key.
C19_SecretSeparate ==
    /\ key_file.written
           => /\ wrapped_data.type \in {"kyber512_wrapped", "falcon512_signed"}
              /\ key_file.json.type = wrapped_data.type
              /\ key_file.json.fields \cap {"secret_key", "shared_secret"}
                     = {}
              /\ B64(wrapped_data.secret_key)
                     \notin JsonValues(key_file.json)
              /\ \A f \in key_file.json.fields \ {"type", "created"} :
                     /\ f \in wrapped_data.fields
                     /\ key_file.json[f] = B64(wrapped_data[f])
    /\ secret_file.written
           => /\ key_file.written
              /\ secret_file.bytes = wrapped_data.secret_key
              /\ secret_file.bytes = SECRET_KEY

C19_Witness ==
    /\ save_ret = "ok"
    /\ wrapped_data.type = "kyber512_wrapped"
    /\ key_file.written
    /\ secret_file.written
    /\ pqc_in.shared_secret # <<>>
    /\ "wrapped_key" \in key_file.json.fields


\* C20: a failed artifact save or key-log append is reported as an error
\* event and does not block key generation: the key of the window is forged
\* and counted, the key-log append is attempted after a failed artifact
\* save, the thread stays in its loop, and it begins the next window unless
\* the system is stopped.
C20_PersistenceFailure ==
    /\ [](keys_generated >= Len(key_log))
    /\ [][\A t \in Threads :
            (pc[t] \in {"persist", "classical"} /\ pc'[t] # pc[t]) =>
                /\ pc'[t] = "enter"
                /\ w[t].forged = 1 /\ w'[t].forged = 1
                /\ keys_generated' = keys_generated
                /\ keys_generated >= 1
                /\ w'[t].artifact = "failed" =>
                      /\ "pqc_save" \in w'[t].errors
                      /\ \/ key_log' = Append(key_log, w[t].key_type)
                         \/ "log" \in w'[t].errors
                /\ key_log' = key_log => "log" \in w'[t].errors
                /\ key_log' # key_log =>
                      /\ Len(key_log') = Len(key_log) + 1
                      /\ w'[t].lines # <<>>
         ]_vars
    /\ \A t \in Threads :
         (pc[t] = "enter" /\ w[t].errors \cap {"pqc_save", "log"} # {}
              /\ is_running)
             ~> (pc[t] = "lock" \/ ~is_running)

C20_Witness ==
    /\ nthreads = 1
    /\ keys_generated = 2
    /\ Len(key_log) = 1
    /\ \E t \in Threads :
         /\ Finished(t)
         /\ w[t].artifact = "failed"
         /\ "pqc_save" \in w[t].errors
         /\ "log" \notin w[t].errors
         /\ Len(w[t].lines) = 1

\* C21: at no time are two threads inside a write to the serial port.
C21_SingleWriter ==
    Cardinality({t \in Writers : writing[t] # NoWrite}) <= 1

\* C22: a write that times out or raises makes send_serial_command emit an
\* error event and return False, and leaves the connection object, whether
\* it is open, and is_running as they were; send_serial_command gives up
\* without writing only when there is no connection.
C22_WriteFailureKeepsLink ==
    [][\A t \in Writers :
          /\ (writing[t] # NoWrite /\ writing'[t] = NoWrite) =>
                /\ send_ret'[t] \in {"true", "timeout", "error"}
                /\ send_ret'[t] \in {"timeout", "error"} =>
                      /\ serial_connection' = serial_connection
                      /\ closed' = closed
                      /\ is_running' = is_running
                      /\ reader' = reader
                      /\ writing[t].conn \in failed'
          /\ (send_ret[t] # "false" /\ send_ret'[t] = "false") =>
                serial_connection = 0
      ]_vars

C22_Witness ==
    \E t \in Writers :
        /\ writing[t] # NoWrite
        /\ writing[t].conn \in failed
        /\ writing[t].conn = serial_connection
        /\ \E u \in Writers : send_ret[u] \in {"timeout", "error"}

\* C23: connect_serial clears the buffers before its first send, sends
\* BRI:, VER?, STAT?, RGB:0,64,128 in this order, reports the connected
\* status only after the four sends, and on a failure leaves
\* serial_connection None and reports a disconnected status and an error.
C23_ConnectHandshake ==
    /\ [](/\ gui.hs = SubSeq(<<"BRI:", "VER?", "STAT?", "RGB:0,64,128">>,
                             1, Len(gui.hs))
          /\ Len(gui.hs) <= 4
          /\ gui.hs # <<>> => gui.reset
          /\ gui.events \in {<<>>, <<"connected">>,
                             <<"disconnected", "error">>}
          /\ gui.events = <<"connected">> => Len(gui.hs) = 4
          /\ gui.events = <<"disconnected", "error">> => Len(gui.hs) = 0)
    /\ [][/\ (gui.events # gui'.events /\ gui'.events = <<"connected">>) =>
                /\ serial_connection' # 0
                /\ serial_connection' = serial_connection
                /\ writing["gui"] = NoWrite
                /\ reader'[serial_connection] = "polling"
          /\ (gui.events # gui'.events
                  /\ gui'.events = <<"disconnected", "error">>) =>
                serial_connection' = 0
          /\ (gui.pc \in {"open", "reset", "send"} /\ gui'.pc = "idle") =>
                gui'.events # <<>>
         ]_vars

C23_Witness ==
    /\ gui.pc = "idle"
    /\ gui.events = <<"connected">>
    /\ serial_connection # 0
    /\ gui.hs = Handshake

\* C24: while the serial link is connected a reader loop is active.
C24_ReaderWhileConnected ==
    (serial_connection # 0 /\ gui.pc = "idle")
        => \E k \in 1..MaxConnects : reader[k] = "polling"

\* C25: a TRNG: line whose payload is ERR, OK or OFF never changes the
\* pool; any other TRNG: line adds exactly one chunk when its payload
\* decodes as base64 and include_esp_trng is set, and adds nothing
\* otherwise; no TRNG: line emits an error event.
C25_TrngDispatch ==
    [][/\ (dispatched.done /\ ~dispatched'.done /\ rx_line'.head = "TRNG:")
            => /\ dispatch_errors' = dispatch_errors
               /\ entropy_chunks' = entropy_chunks
               /\ nchunks' = nchunks
               /\ (prod'["trng"] = "acquire")
                     <=> /\ rx_line'.body \notin Markers
                         /\ B64Decodes(rx_line'.body)
                         /\ include_esp_trng
               /\ (prod'["trng"] # "acquire") => prod'["trng"] = "idle"
       /\ (~dispatched.done /\ dispatched'.done /\ rx_line.head = "TRNG:")
            => /\ dispatch_errors' = dispatch_errors
               /\ nchunks' = nchunks
               /\ IF /\ rx_line.body \notin Markers
                     /\ B64Decodes(rx_line.body)
                     /\ include_esp_trng
                  THEN /\ nchunks = dispatched.before + 1
                       /\ nchunks \in Range(entropy_chunks)
                  ELSE nchunks = dispatched.before
       /\ (~dispatched.done /\ prod["trng"] = "idle")
            => entropy_chunks' = entropy_chunks
      ]_vars

C25_Witness ==
    /\ dispatched.done
    /\ rx_line.head = "TRNG:"
    /\ rx_line.body = <<"O", "O", "=", "=">>
    /\ include_esp_trng
    /\ nchunks = dispatched.before + 1
    /\ nchunks = DispatchChunks

\* C26: after TRNG:START,<rate> and then TRNG:STOP the device has printed
\* exactly one TRNG:OK, then zero or more frames, then TRNG:OFF: no frame
\* comes before TRNG:OK and none after the STOP handler returned, wherever
\* the timer callback preempts the main thread.
C26_StreamFraming ==
    LET \* the TRNG: lines of the device's output, in order
        TrngLines ==
            SelectSeq(dev_out,
                      LAMBDA l : l \in {"TRNG:OK", "TRNG:frame", "TRNG:OFF",
                                        "TRNG:ERR"})
    IN  (dev_mode = "main" /\ dev_script \in {"start", "start_stop"})
            => /\ TrngLines # <<>> => TrngLines[1] = "TRNG:OK"
               /\ \A i \in 2..Len(TrngLines) :
                     TrngLines[i] = "TRNG:frame"
                        \/ /\ i = Len(TrngLines)
                           /\ dev_script = "start_stop"
                           /\ TrngLines[i] = "TRNG:OFF"
               /\ dev_pc = "loop" => TrngLines # <<>>
               /\ dev_script = "start_stop"
                     => /\ Len(TrngLines) >= 2
                        /\ TrngLines[Len(TrngLines)] = "TRNG:OFF"

\* C27: an RGB: payload that is not exactly three integers in 0..255 is
\* rejected: the error counter goes up by one, the LED colour and
\* rgb_updates stay as they were, and the main loop goes on.
C27_BadRgbRejected ==
    [][(/\ dev_mode = "main"
        /\ ncommands' = ncommands + 1
        /\ dev_cmd'.verb = "RGB:"
        /\ ~ /\ Len(dev_cmd'.parts) = 3
             /\ \A i \in 1..Len(dev_cmd'.parts) :
                   /\ dev_cmd'.parts[i].int
                   /\ dev_cmd'.parts[i].val \in 0..255)
          => /\ error_count' = error_count + 1
             /\ current_color' = current_color
             /\ rgb_updates' = rgb_updates
             /\ dev_brightness' = dev_brightness
             /\ dev_mode' = "main"
             /\ dev_pc' = "loop"]_vars

C27_Witness ==
    /\ dev_mode = "main"
    /\ ncommands = 2
    /\ dev_cmd.verb = "RGB:"
    /\ dev_cmd.parts = <<[int |-> TRUE, val |-> 0],
                         [int |-> TRUE, val |-> 256],
                         [int |-> TRUE, val |-> 0]>>
    /\ error_count = 1
    /\ rgb_updates = 1
    /\ current_color = <<255, 0, 255>>

\* C28: in emergency mode only VER? (answered with the emergency banner)
\* and RESET (which restarts the device) are handled; every other command
\* produces no output and changes no state.
C28_EmergencyCommands ==
    [][(dev_mode = "emergency" /\ ncommands' = ncommands + 1)
          => CASE dev_cmd'.verb = "VER?" ->
                    /\ dev_out' = Append(dev_out, "EMERGENCY_MODE")
                    /\ dev_mode' = "emergency"
               [] dev_cmd'.verb = "RESET" -> dev_mode' = "reset"
               [] OTHER ->
                    /\ dev_out' = dev_out
                    /\ dev_mode' = "emergency"
                    /\ UNCHANGED <<dev_pc, trng_timer, error_count,
                                   rgb_updates, current_color,
                                   dev_brightness>>]_vars

\* C29: for every command line other than RESET the handler returns
\* normally, counting an error where it logs one, and the main loop goes
\* on to the next line; no command line ends the main loop.
C29_LoopSurvivesCommands ==
    [][/\ (/\ dev_mode = "main"
           /\ ncommands' = ncommands + 1
           /\ dev_cmd'.verb # "RESET")
            => /\ dev_mode' = "main"
               /\ dev_pc' \in {"loop", "trng_ack"}
               /\ dev_pc' = "trng_ack"
                     => dev_cmd'.verb = "TRNG:START" /\ trng_timer'
               /\ error_count' \in {error_count, error_count + 1}
               /\ error_count' = error_count + 1
                     <=> "[ERROR]" \in Range(SubSeq(dev_out', Len(dev_out) + 1,
                                                    Len(dev_out')))
               /\ dev_cmd'.verb = "unknown"
                     => error_count' = error_count + 1
               /\ dev_cmd'.verb = ""
                     => error_count' = error_count /\ dev_out' = dev_out
       /\ (dev_mode = "main" /\ dev_mode' = "exited")
            => ncommands' = ncommands /\ dev_cmd' = dev_cmd
       /\ (dev_mode = "main" /\ dev_pc = "trng_ack" /\ dev_pc' = "loop"
             /\ dev_mode' = "main")
            => dev_out' = Append(dev_out, "TRNG:OK")
      ]_vars

C29_Witness ==
    /\ dev_mode = "main"
    /\ dev_pc = "loop"
    /\ ncommands = 2
    /\ error_count = 1
    /\ dev_out = <<"[ERROR]", "VER?">>
    /\ dev_cmd = [verb |-> "VER?", fail |-> "none", parts |-> <<>>]

\* C30: every non-empty window increments the forged-key counter by
\* exactly one and emits both an audit-updated event and a key-forged
\* event, whichever variant (classical, Kyber-wrapped or Falcon-signed)
\* the window produces.  Windows ended by an exception outside every
\* try of the routine are left aside.
C30_WindowEvents ==
    \A t \in Threads :
        (Finished(t) /\ "loop" \notin w[t].errors)
            => /\ w[t].forged = 1
               /\ w[t].audit_events = 1
               /\ w[t].key_events = 1

C32_AuditFailureNotReady ==
    \A t \in Threads :
        w[t].audit = "default" =>
            /\ "audit" \in w[t].errors
            /\ ~w[t].pqc_ready
            /\ pc[t] \notin {"wrap", "persist"}
            /\ w[t].kyber = "none" /\ w[t].falcon = "none"
            /\ Finished(t) => /\ w[t].classical_calls = 1
                              /\ w[t].key_type = "classical"

\* C33: the aggregator lifecycle is Idle -> Running -> Idle.  A start from
\* Idle sets Running, clears the stop signal and launches the
\* window-processing routine (after connect_serial has returned when a
\* port is set); while Running no step launches a second routine, starts
\* a connect on behalf of start or touches the stop signal; a stop leaves
\* the aggregator Idle with the stop signal set and no serial connection;
\* the stop signal is cleared by a start only.
C33_Lifecycle ==
    [][LET starting(g) == g.pc # "idle" /\ g.from_start
           launched == /\ nthreads' = nthreads + 1
                       /\ pc'[nthreads'] = "enter"
       IN  /\ (~is_running /\ is_running') =>
                /\ ~stop_event'
                /\ IF serial_port THEN starting(gui') /\ nthreads' = nthreads
                   ELSE launched
           /\ (starting(gui) /\ ~starting(gui')) => (launched /\ is_running')
           /\ (is_running /\ is_running' /\ ~starting(gui)) =>
                /\ nthreads' = nthreads
                /\ stop_event' = stop_event
                /\ ~starting(gui')
           /\ ((is_running /\ ~is_running') \/ (~stop_event /\ stop_event')) =>
                /\ ~is_running'
                /\ stop_event'
                /\ serial_connection' = 0
           /\ (stop_event /\ ~stop_event') => (~is_running /\ is_running')
           /\ is_running' => ~stop_event'
      ]_vars

\* the aggregator is Idle again after two starts, one of them with a
\* serial connection that the stop closed
C33_Witness ==
    /\ ~is_running
    /\ stop_event
    /\ nthreads = MaxThreads
    /\ nconnects >= 1
    /\ closed # {}
    /\ serial_connection = 0

\* C34: the configured TRNG streaming rate is always an integer in 1..50.
\* After a TRNG:START whose rate parses the stored rate is 1 for a rate
\* below 1, 50 for a rate above 50, 10 for an omitted rate and the given
\* rate otherwise, and the period of an armed timer is 1000 // rate of the
\* stored rate.
C34_RateClamped ==
    /\ trng_rate_hz \in MinRate..MaxRate
    /\ armed > 0 => trng_period = 1000 \div trng_rate_hz
    /\ (/\ dev_mode = "main"
        /\ dev_cmd.verb = "TRNG:START"
        /\ dev_cmd.parts = <<>> \/ dev_cmd.parts[1].int)
          => trng_rate_hz =
                IF dev_cmd.parts = <<>> THEN 10
                ELSE IF dev_cmd.parts[1].val < 1 THEN 1
                ELSE IF dev_cmd.parts[1].val > 50 THEN 50
                ELSE dev_cmd.parts[1].val

\* a TRNG:START,51, the second command read, arms the timer at 50 Hz
C34_Witness ==
    /\ dev_mode = "main"
    /\ dev_pc = "loop"
    /\ ncommands = 2
    /\ dev_cmd = [verb |-> "TRNG:START", fail |-> "none",
                  parts |-> <<[int |-> TRUE, val |-> 51]>>]
    /\ trng_rate_hz = 50
    /\ trng_period = 20
    /\ armed = 1
    /\ "TRNG:OK" \in Range(dev_out)

\* C35: the main loop handles at most one command line per iteration, and
\* after c processed commands gc.collect() has run floor(c / 50) times,
\* however many idle iterations lie between the commands.
C35_MaintenancePerFifty ==
    /\ []((dev_mode = "main" /\ dev_pc = "loop")
             => gc_runs = command_count \div MaintenanceEvery)
    /\ [][command_count' <= command_count + 1]_vars

\* C36: no timer callback runs between the byte write and the cursor
\* advance of a ring-buffer update; both cursors stay within 0..255; every
\* non-empty command line handled by the main loop advances the USB jitter
\* cursor by exactly one modulo 256.  A push cut short by a keyboard
\* interrupt is left aside.
C36_RingGuarded ==
    /\ [](/\ ~torn
          /\ usb_j_idx \in 0..(RingSize - 1)
          /\ wifi_idx \in 0..(RingSize - 1))
    /\ [][(/\ dev_mode = "main"
           /\ dev_pc # "skipped"
           /\ ncommands' = ncommands + 1
           /\ dev_cmd'.verb # "")
             => usb_j_idx' = (usb_j_idx + 1) % RingSize]_vars

C37_NoChunkWhileIdle ==
    [][(~is_running /\ ~is_running') =>
          /\ nchunks' = nchunks
          /\ Len(entropy_chunks') <= Len(entropy_chunks)]_vars

\* C38: at most one serial response-reader thread is alive at any time,
\* across every sequence of connect, disconnect, start and stop.
C38_SingleReader ==
    Cardinality({k \in DOMAIN reader : reader[k] = "polling"}) <= 1

====
